---- MODULE Spec2Model ----
(***************************************************************************)
(* Model of find-packages.js (RoqCode/audit-this): the version parser, the *)
(* specifier compiler, the satisfaction evaluator and the state they       *)
(* touch (parsedSemverCache, versionRangeWarningSet, versionRangeWarnings).*)
(*                                                                         *)
(* A JavaScript string is a sequence of one-character strings, so that     *)
(* trim, split, indexOf, startsWith and the regular expressions of the     *)
(* source are computed character by character.                             *)
(***************************************************************************)
EXTENDS Integers, Sequences, FiniteSets, TLC

VARIABLES
  parsedSemverCache,       \* Map: version string -> parsed version or null
  versionRangeWarningSet,  \* Set of warning messages
  versionRangeWarnings,    \* array of warning messages, in the order recorded
  pc,                      \* where the run is
  cmpCall,                 \* the last compareSemver call: its arguments and result
  specCall,                \* the last specifier compiled: its text and compiled range
  satCall,                 \* the last satisfiesRange call: the version string and result
  specs,                   \* main: the requests read from the list file
  sources,                 \* main: perSourcePackages, the index of each scan source
  installed,               \* main: the combined index
  results,                 \* main: what matchSpecs returned for the combined index
  exitCode,                \* the code the process exited with, once it has
  options,                 \* the arguments and what the script read from them
  collected,               \* the index the running collector has built so far
  disk,                    \* the files the run has met, in the order it read them
  walk                     \* a directory walk: its stack, visited set and what it yielded

\* The variables of main.
runVars == <<specs, sources, installed, results, exitCode, options, collected, disk, walk>>

vars == <<parsedSemverCache, versionRangeWarningSet, versionRangeWarnings, pc,
          cmpCall, specCall, satCall, specs, sources, installed, results, exitCode,
          options, collected, disk, walk>>

\* ------------------------------------------------------------------------
\* Characters and strings
\* ------------------------------------------------------------------------

\* Printable ASCII, in code order: Ascii[i] has code 31 + i. ("grave" holds the
\* place of the grave accent, code 96, which no input of the model contains.)
Ascii ==
  << " ", "!", "\"", "#", "$", "%", "&", "'", "(", ")", "*", "+", ",", "-", ".", "/",
     "0", "1", "2", "3", "4", "5", "6", "7", "8", "9", ":", ";", "<", "=", ">", "?",
     "@", "A", "B", "C", "D", "E", "F", "G", "H", "I", "J", "K", "L", "M", "N", "O",
     "P", "Q", "R", "S", "T", "U", "V", "W", "X", "Y", "Z", "[", "\\", "]", "^", "_",
     "grave", "a", "b", "c", "d", "e", "f", "g", "h", "i", "j", "k", "l", "m", "n", "o",
     "p", "q", "r", "s", "t", "u", "v", "w", "x", "y", "z", "{", "|", "}", "~" >>

\* The UTF-16 code unit of a character (what < on JavaScript strings compares).
CharCode == [c \in {Ascii[i] : i \in DOMAIN Ascii} |-> 31 + (CHOOSE i \in DOMAIN Ascii : Ascii[i] = c)]

\* \d
Digit == {"0", "1", "2", "3", "4", "5", "6", "7", "8", "9"}

\* [A-Za-z]
Letter == {Ascii[i] : i \in 34..59} \cup {Ascii[i] : i \in 66..91}

\* [0-9A-Za-z.-]
PreChar == Digit \cup Letter \cup {".", "-"}

\* \s (the whitespace that occurs in one line of input)
WS == {" ", "\t"}

DigitVal(c) == CharCode[c] - 48

\* String.prototype.trim
Trim(s) ==
  IF \A i \in DOMAIN s : s[i] \in WS THEN <<>>
  ELSE LET a == CHOOSE i \in DOMAIN s : s[i] \notin WS /\ \A j \in 1..(i - 1) : s[j] \in WS
           b == CHOOSE i \in DOMAIN s : s[i] \notin WS /\ \A j \in (i + 1)..Len(s) : s[j] \in WS
       IN  SubSeq(s, a, b)

\* The length of the longest prefix of s made of characters of cs (a greedy cs*).
TakeLen(s, cs) ==
  CHOOSE n \in 0..Len(s) :
    /\ \A i \in 1..n : s[i] \in cs
    /\ n = Len(s) \/ s[n + 1] \notin cs

Drop(s, n) == SubSeq(s, n + 1, Len(s))

\* String.prototype.startsWith
StartsWith(s, p) == Len(p) <= Len(s) /\ SubSeq(s, 1, Len(p)) = p

\* String.prototype.indexOf for a one-character needle, 1-based; 0 when absent
\* (JavaScript: 0-based, -1 when absent).
IndexOf(s, c) ==
  IF \E i \in DOMAIN s : s[i] = c
  THEN CHOOSE i \in DOMAIN s : s[i] = c /\ \A j \in 1..(i - 1) : s[j] # c
  ELSE 0

\* /^\d+$/.test
IsNumeric(s) == Len(s) > 0 /\ \A i \in DOMAIN s : s[i] \in Digit

\* Number.parseInt(s, 10) of a digit string.
RECURSIVE ParseInt(_)
ParseInt(s) ==
  IF Len(s) = 0 THEN 0
  ELSE 10 * ParseInt(SubSeq(s, 1, Len(s) - 1)) + DigitVal(s[Len(s)])

\* `${n}` of a non-negative integer.
RECURSIVE IntToStr(_)
IntToStr(n) ==
  IF n < 10 THEN <<Ascii[17 + n]>>
  ELSE IntToStr(n \div 10) \o <<Ascii[17 + (n % 10)]>>

\* s.split(/[cs]/): the pieces between separator characters, empty ones kept.
RECURSIVE SplitChars(_, _)
SplitChars(s, cs) ==
  IF \A i \in DOMAIN s : s[i] \notin cs THEN <<s>>
  ELSE LET i == CHOOSE k \in DOMAIN s : s[k] \in cs /\ \A j \in 1..(k - 1) : s[j] \notin cs
       IN  <<SubSeq(s, 1, i - 1)>> \o SplitChars(Drop(s, i), cs)

\* s.split(sep) for a separator string, empty pieces kept.
RECURSIVE SplitStr(_, _)
SplitStr(s, sep) ==
  IF \A i \in 1..(Len(s) - Len(sep) + 1) : SubSeq(s, i, i + Len(sep) - 1) # sep THEN <<s>>
  ELSE LET i == CHOOSE k \in 1..(Len(s) - Len(sep) + 1) :
                  /\ SubSeq(s, k, k + Len(sep) - 1) = sep
                  /\ \A j \in 1..(k - 1) : SubSeq(s, j, j + Len(sep) - 1) # sep
       IN  <<SubSeq(s, 1, i - 1)>> \o SplitStr(Drop(s, i + Len(sep) - 1), sep)

\* .filter(Boolean) on an array of strings: the empty ones go.
NonEmpty(ss) == SelectSeq(ss, LAMBDA x : Len(x) > 0)

\* .map(f) and .flatMap(f) on an array
RECURSIVE FlatSeq(_)
FlatSeq(ss) == IF Len(ss) = 0 THEN <<>> ELSE Head(ss) \o FlatSeq(Tail(ss))

\* ------------------------------------------------------------------------
\* Version parser
\* ------------------------------------------------------------------------

\* null, where a function returns an object or null.
Null == [null |-> TRUE]

\* An optional string (a string or null): <<>> is null, <<s>> is the string s.
None == <<>>
Some(s) == <<s>>

\* The outcome of a call that may throw: the value returned, or the Error thrown.
\* The Error's message is kept as its fixed wording and the text quoted in it.
Ok(v) == [err |-> FALSE, value |-> v]
Thrown(wording, text) == [err |-> TRUE, message |-> [wording |-> wording, text |-> text]]

\* One optional group (?:c([cs]+))? of the version pattern at the head of t: the
\* number of characters [cs]+ takes (0: the group does not match), the text it
\* captures and the text left after it.
GroupLen(t, c, cs) == IF Len(t) > 0 /\ t[1] = c THEN TakeLen(Drop(t, 1), cs) ELSE 0
GroupText(t, c, cs) == SubSeq(t, 2, GroupLen(t, c, cs) + 1)
AfterGroup(t, c, cs) == IF GroupLen(t, c, cs) > 0 THEN Drop(t, GroupLen(t, c, cs) + 1) ELSE t

\* The match of /^v?(\d+)(?:\.(\d+))?(?:\.(\d+))?(?:-([0-9A-Za-z.-]+))?(?:\+([0-9A-Za-z.-]+))?$/
\* against s, group by group: [ok, maj, min, pat, pre, build]; an unmatched
\* group is the empty string. Each group is greedy and no shorter match of one
\* lets the rest match, since the groups start with different characters.
MatchEnd(maj, min, pat, pre, build, rest) ==
  IF Len(rest) > 0 THEN [ok |-> FALSE]
  ELSE [ok |-> TRUE, maj |-> maj, min |-> min, pat |-> pat, pre |-> pre, build |-> build]

MatchBuild(maj, min, pat, pre, rest) ==
  MatchEnd(maj, min, pat, pre, GroupText(rest, "+", PreChar), AfterGroup(rest, "+", PreChar))

MatchPre(maj, min, pat, rest) ==
  MatchBuild(maj, min, pat, GroupText(rest, "-", PreChar), AfterGroup(rest, "-", PreChar))

MatchPatch(maj, min, rest) ==
  MatchPre(maj, min, GroupText(rest, ".", Digit), AfterGroup(rest, ".", Digit))

MatchMinor(maj, rest) ==
  MatchPatch(maj, GroupText(rest, ".", Digit), AfterGroup(rest, ".", Digit))

MatchMajor(s0) ==
  IF TakeLen(s0, Digit) = 0 THEN [ok |-> FALSE]
  ELSE MatchMinor(SubSeq(s0, 1, TakeLen(s0, Digit)), Drop(s0, TakeLen(s0, Digit)))

SemverMatch(s) == MatchMajor(IF Len(s) > 0 /\ s[1] = "v" THEN Drop(s, 1) ELSE s)

\* Lines 147-173 of parseSemver: the structured version of a match, or null.
\* (Number.parseInt of a digit string is never NaN.)
VersionOfMatch(trimmed, m) ==
  IF ~m.ok THEN Null
  ELSE [major      |-> ParseInt(m.maj),
        minor      |-> ParseInt(m.min),
        patch      |-> ParseInt(m.pat),
        prerelease |-> NonEmpty(SplitChars(m.pre, {".", "-"})),
        build      |-> NonEmpty(SplitChars(m.build, {".", "-"})),
        raw        |-> trimmed]

ParseTrimmed(trimmed) == VersionOfMatch(trimmed, SemverMatch(trimmed))

\* parseSemver on a cache miss (the argument is a string): the structured
\* version, or null.
ParseSemverMiss(version) == ParseTrimmed(Trim(version))

\* parsedSemverCache.set(version, r); return r
Cached(cache, version, r) == [value |-> r, cache |-> cache @@ (version :> r)]

\* parseSemver(version) with parsedSemverCache = cache: the value returned and
\* the cache afterwards.
parseSemver(cache, version) ==
  IF version \in DOMAIN cache
  THEN [value |-> cache[version], cache |-> cache]
  ELSE Cached(cache, version, ParseSemverMiss(version))

\* compareIdentifiers(a, b): -1, 0 or 1.
StrLess(a, b) ==
  \E i \in 1..(Len(a) + 1) :
    /\ i <= Len(b)
    /\ \A j \in 1..(i - 1) : j <= Len(a) /\ a[j] = b[j]
    /\ i = Len(a) + 1 \/ CharCode[a[i]] < CharCode[b[i]]

\* compareIdentifiers without its numeric branch: digits compared as text.
compareIdentifiersAsText(a, b) ==
  IF a = b THEN 0 ELSE IF StrLess(a, b) THEN -1 ELSE 1

compareIdentifiers(a, b) ==
  IF a = b THEN 0
  ELSE IF IsNumeric(a) /\ IsNumeric(b)
       THEN IF ParseInt(a) = ParseInt(b) THEN 0
            ELSE IF ParseInt(a) < ParseInt(b) THEN -1 ELSE 1
  ELSE IF IsNumeric(a) THEN -1
  ELSE IF IsNumeric(b) THEN 1
  ELSE IF StrLess(a, b) THEN -1 ELSE 1

\* The for loop of compareSemver from index i (1-based) on.
RECURSIVE ComparePrerelease(_, _, _)
ComparePrerelease(aPre, bPre, i) ==
  LET len == IF Len(aPre) >= Len(bPre) THEN Len(aPre) ELSE Len(bPre)
  IN  IF i > len THEN 0
      ELSE IF i > Len(aPre) THEN -1
      ELSE IF i > Len(bPre) THEN 1
      ELSE LET cmp == compareIdentifiers(aPre[i], bPre[i])
           IN  IF cmp # 0 THEN cmp ELSE ComparePrerelease(aPre, bPre, i + 1)

\* compareSemver without its prerelease part: major, minor and patch only.
compareSemverOnTriples(a, b) ==
  IF a.major # b.major THEN (IF a.major < b.major THEN -1 ELSE 1)
  ELSE IF a.minor # b.minor THEN (IF a.minor < b.minor THEN -1 ELSE 1)
  ELSE IF a.patch # b.patch THEN (IF a.patch < b.patch THEN -1 ELSE 1)
  ELSE 0

\* compareSemver(a, b): -1, 0 or 1.
compareSemver(a, b) ==
  IF a.major # b.major THEN (IF a.major < b.major THEN -1 ELSE 1)
  ELSE IF a.minor # b.minor THEN (IF a.minor < b.minor THEN -1 ELSE 1)
  ELSE IF a.patch # b.patch THEN (IF a.patch < b.patch THEN -1 ELSE 1)
  ELSE IF Len(a.prerelease) = 0 /\ Len(b.prerelease) = 0 THEN 0
  ELSE IF Len(a.prerelease) = 0 THEN 1
  ELSE IF Len(b.prerelease) = 0 THEN -1
  ELSE ComparePrerelease(a.prerelease, b.prerelease, 1)

\* ------------------------------------------------------------------------
\* Specifier compiler
\* ------------------------------------------------------------------------

isWildcardToken(token) == token \in {<<"*">>, <<"x">>, <<"X">>}

\* The padding loop of parseVersionToken: while (parts.length < 3) parts.push("0")
PadParts(parts) ==
  IF Len(parts) = 1 THEN parts \o <<(<<"0">>), (<<"0">>)>>
  ELSE IF Len(parts) = 2 THEN parts \o <<(<<"0">>)>>
  ELSE parts

\* s up to its first c (all of s when c does not occur), and what follows that
\* c (null when c does not occur): the indexOf / slice pairs of parseVersionToken.
BeforeChar(s, c) == IF IndexOf(s, c) # 0 THEN SubSeq(s, 1, IndexOf(s, c) - 1) ELSE s
AfterChar(s, c) == IF IndexOf(s, c) # 0 THEN Some(Drop(s, IndexOf(s, c))) ELSE None

\* tag ? tag.split(/[.-]/).filter(Boolean) : []   (tag an optional string)
TagParts(tag) ==
  IF tag # None /\ Len(tag[1]) > 0 THEN NonEmpty(SplitChars(tag[1], {".", "-"})) ELSE <<>>

\* parsePart of parseVersionToken: whether it returns, and the number it returns.
PartOk(value) == isWildcardToken(value) \/ IsNumeric(value)
parsePart(value) == IF isWildcardToken(value) THEN 0 ELSE ParseInt(value)

\* Lines 260-308 of parseVersionToken, parts being the three padded parts. The
\* numbers of the model are far below 2^53, so the Number.isSafeInteger checks
\* (lines 280-285) pass whenever the three parts are digit strings.
TokenOfParts(trimmed, build, prerelease, precision, parts) ==
  IF isWildcardToken(parts[1]) THEN Ok([any |-> TRUE, raw |-> trimmed])
  ELSE IF ~(PartOk(parts[1]) /\ PartOk(parts[2]) /\ PartOk(parts[3]))
  THEN Thrown("invalid numeric value in", trimmed)
  ELSE Ok([any           |-> FALSE,
           precision     |-> precision,
           wildcardMinor |-> isWildcardToken(parts[2]) \/ precision = 1,
           wildcardPatch |-> isWildcardToken(parts[3]) \/ precision = 2,
           version       |-> [major      |-> parsePart(parts[1]),
                              minor      |-> parsePart(parts[2]),
                              patch      |-> parsePart(parts[3]),
                              prerelease |-> TagParts(prerelease),
                              build      |-> TagParts(build),
                              raw        |-> trimmed]])

\* Lines 254-258 of parseVersionToken.
TokenOfBase(trimmed, build, prerelease, rawParts) ==
  IF Len(rawParts) > 3 THEN Thrown("too many version segments in", trimmed)
  ELSE TokenOfParts(trimmed, build, prerelease, Len(rawParts), PadParts(rawParts))

\* Lines 234-254 of parseVersionToken.
TokenOfTrimmed(trimmed) ==
  IF Len(trimmed) = 0 THEN Thrown("empty version segment", <<>>)
  ELSE IF isWildcardToken(trimmed) THEN Ok([any |-> TRUE, raw |-> trimmed])
  ELSE TokenOfBase(trimmed,
                   AfterChar(trimmed, "+"),
                   AfterChar(BeforeChar(trimmed, "+"), "-"),
                   SplitChars(BeforeChar(BeforeChar(trimmed, "+"), "-"), {"."}))

\* parseVersionToken(raw): Ok(token) or the Error thrown.
parseVersionToken(raw) == TokenOfTrimmed(Trim(raw))

\* `${major}.${minor}.${patch}`
TripleStr(major, minor, patch) ==
  IntToStr(major) \o <<".">> \o IntToStr(minor) \o <<".">> \o IntToStr(patch)

cloneVersion(v) ==
  [major |-> v.major, minor |-> v.minor, patch |-> v.patch,
   prerelease |-> v.prerelease, build |-> v.build,
   raw |-> IF Len(v.raw) > 0 THEN v.raw ELSE TripleStr(v.major, v.minor, v.patch)]

\* Lines 313-318 of normalizeBase, v being the clone.
Normalized(v, resetMinor, resetPatch) ==
  [major |-> v.major,
   minor |-> IF resetMinor THEN 0 ELSE v.minor,
   patch |-> IF resetPatch THEN 0 ELSE v.patch,
   prerelease |-> <<>>, build |-> <<>>,
   raw |-> TripleStr(v.major, IF resetMinor THEN 0 ELSE v.minor,
                     IF resetPatch THEN 0 ELSE v.patch)]

normalizeBase(version, resetMinor, resetPatch) ==
  Normalized(cloneVersion(version), resetMinor, resetPatch)

\* Lines 333-335 of incrementVersion.
Rewritten(v) == [v EXCEPT !.prerelease = <<>>, !.raw = TripleStr(v.major, v.minor, v.patch)]

\* Lines 323-332 of incrementVersion, v being the normalized base.
Incremented(v, level) ==
  Rewritten(IF level = "major" THEN [v EXCEPT !.major = v.major + 1, !.minor = 0, !.patch = 0]
            ELSE IF level = "minor" THEN [v EXCEPT !.minor = v.minor + 1, !.patch = 0]
            ELSE [v EXCEPT !.patch = v.patch + 1])

incrementVersion(version, level) ==
  Incremented(normalizeBase(version, level = "major", level # "patch"), level)

createComparator(op, version) == [op |-> op, version |-> version]

\* The object literal { major, minor, patch, prerelease: [], build: [], raw: `...` }
PlainVersion(major, minor, patch) ==
  [major |-> major, minor |-> minor, patch |-> patch,
   prerelease |-> <<>>, build |-> <<>>, raw |-> TripleStr(major, minor, patch)]

\* Lines 344-353 of expandTilde, base being the clone of the token's version.
TildeOf(base, precision) ==
  << createComparator(">=", normalizeBase(base, FALSE, FALSE)),
     createComparator("<", normalizeBase(IF precision <= 1 THEN incrementVersion(base, "major")
                                         ELSE incrementVersion(base, "minor"), FALSE, FALSE)) >>

expandTilde(token) ==
  IF token.any THEN <<>> ELSE TildeOf(cloneVersion(token.version), token.precision)

\* Lines 359-369 of expandCaret, base being the clone of the token's version.
CaretOf(base) ==
  << createComparator(">=", normalizeBase(base, FALSE, FALSE)),
     createComparator("<",
       IF base.major > 0 THEN PlainVersion(base.major + 1, 0, 0)
       ELSE IF base.minor > 0 THEN PlainVersion(base.major, base.minor + 1, 0)
       ELSE PlainVersion(base.major, base.minor, base.patch + 1)) >>

expandCaret(token) == IF token.any THEN <<>> ELSE CaretOf(cloneVersion(token.version))

\* expandBareVersion going by the number of components written alone, blind to
\* the wildcard flags.
BareOfByPrecision(base, token) ==
  IF token.precision = 1
  THEN << createComparator(">=", normalizeBase(base, FALSE, TRUE)),
          createComparator("<", normalizeBase(PlainVersion(base.major + 1, 0, 0), FALSE, FALSE)) >>
  ELSE IF token.precision = 2
  THEN << createComparator(">=", normalizeBase(base, FALSE, TRUE)),
          createComparator("<", normalizeBase(PlainVersion(base.major, base.minor + 1, 0),
                                              FALSE, FALSE)) >>
  ELSE << createComparator("=", normalizeBase(base, FALSE, FALSE)) >>

\* Lines 375-405 of expandBareVersion, base being the clone of the token's version.
BareOf(base, token) ==
  IF token.wildcardMinor \/ token.precision = 1
  THEN << createComparator(">=", normalizeBase(base, FALSE, TRUE)),
          createComparator("<", normalizeBase(PlainVersion(base.major + 1, 0, 0), FALSE, FALSE)) >>
  ELSE IF token.wildcardPatch \/ token.precision = 2
  THEN << createComparator(">=", normalizeBase(base, FALSE, TRUE)),
          createComparator("<", normalizeBase(PlainVersion(base.major, base.minor + 1, 0),
                                              FALSE, FALSE)) >>
  ELSE << createComparator("=", normalizeBase(base, FALSE, FALSE)) >>

expandBareVersion(token) ==
  IF token.any THEN <<>> ELSE BareOf(cloneVersion(token.version), token)

comparatorFromOperator(op, token) ==
  IF token.any THEN <<>>
  ELSE << createComparator(op, normalizeBase(token.version, FALSE, FALSE)) >>

hyphenComparators(aToken, bToken) ==
  LET lower == IF aToken.any THEN <<>>
               ELSE << createComparator(">=", normalizeBase(aToken.version, FALSE, FALSE)) >>
      upper ==
        IF bToken.any THEN <<>>
        ELSE IF bToken.precision = 1 \/ bToken.wildcardMinor
        THEN << createComparator("<",
                  normalizeBase(PlainVersion(bToken.version.major + 1, 0, 0), FALSE, FALSE)) >>
        ELSE IF bToken.precision = 2 \/ bToken.wildcardPatch
        THEN << createComparator("<",
                  normalizeBase(PlainVersion(bToken.version.major, bToken.version.minor + 1, 0),
                                FALSE, FALSE)) >>
        ELSE << createComparator("<=", normalizeBase(bToken.version, FALSE, FALSE)) >>
  IN  IF aToken.any /\ bToken.any THEN <<>> ELSE lower \o upper

\* The operators of parseComparatorToken, in the order they are tried.
operators == << <<">", "=">>, <<"<", "=">>, <<">">>, <<"<">>, <<"=">>, <<"^">>, <<"~">> >>

\* The operator of a comparator, as the string the source writes.
OpName(op) ==
  CASE op = <<">", "=">> -> ">="
    [] op = <<"<", "=">> -> "<="
    [] op = <<">">> -> ">"
    [] op = <<"<">> -> "<"
    [] op = <<"=">> -> "="

\* The for loop of parseComparatorToken: the first candidate the text starts
\* with, or the empty string.
FirstOperator(trimmed, i) ==
  LET hits == {k \in i..Len(operators) : StartsWith(trimmed, operators[k])}
  IN  IF hits = {} THEN <<>> ELSE operators[CHOOSE k \in hits : \A j \in hits : k <= j]

\* The switch of parseComparatorToken (lines 469-488). An operator outside the
\* list is never found, so the default branch is not reached.
ComparatorsOfToken(op, tokenInfo) ==
  IF tokenInfo.err THEN tokenInfo
  ELSE IF tokenInfo.value.any THEN Ok(<<>>)
  ELSE IF op = <<"^">> THEN Ok(expandCaret(tokenInfo.value))
  ELSE IF op = <<"~">> THEN Ok(expandTilde(tokenInfo.value))
  ELSE IF op = <<>> THEN Ok(expandBareVersion(tokenInfo.value))
  ELSE Ok(comparatorFromOperator(OpName(op), tokenInfo.value))

\* rest = trimmed.slice(candidate.length).trim(); tokenInfo = parseVersionToken(rest)
ComparatorsOfOperator(op, trimmed) ==
  ComparatorsOfToken(op, parseVersionToken(Trim(Drop(trimmed, Len(op)))))

ComparatorsOfTrimmed(trimmed) ==
  IF Len(trimmed) = 0 THEN Ok(<<>>)
  ELSE ComparatorsOfOperator(FirstOperator(trimmed, 1), trimmed)

\* parseComparatorToken(token): Ok(comparators) or the Error thrown.
parseComparatorToken(token) == ComparatorsOfTrimmed(Trim(token))

\* part.match(/^(.*)\s+-\s+(.*)$/): Null, or the two groups. The first group is
\* greedy: it ends at the last place where whitespace, a hyphen and whitespace
\* follow; the second \s+ takes all the whitespace after the hyphen.
HyphenMatch(part) ==
  LET ks == {k \in 0..(Len(part) - 3) :
               \E j \in (k + 2)..(Len(part) - 1) :
                 /\ \A i \in (k + 1)..(j - 1) : part[i] \in WS
                 /\ part[j] = "-"
                 /\ part[j + 1] \in WS}
      k  == CHOOSE x \in ks : \A y \in ks : y <= x
      j  == CHOOSE x \in (k + 2)..(Len(part) - 1) :
              part[x] = "-" /\ \A i \in (k + 1)..(x - 1) : part[i] \in WS
      after == Drop(part, j)
  IN  IF ks = {} THEN Null
      ELSE [from |-> SubSeq(part, 1, k), to |-> Drop(after, TakeLen(after, WS))]

\* The first Error of a sequence of outcomes, or Ok of the values.
Collect(outcomes) ==
  IF \E i \in DOMAIN outcomes : outcomes[i].err
  THEN outcomes[CHOOSE i \in DOMAIN outcomes :
                  outcomes[i].err /\ \A j \in 1..(i - 1) : ~outcomes[j].err]
  ELSE Ok([i \in DOMAIN outcomes |-> outcomes[i].value])

\* Lines 500-502: the hyphen range of two parsed tokens.
HyphenSet(fromToken, toToken) ==
  IF fromToken.err THEN fromToken
  ELSE IF toToken.err THEN toToken
  ELSE Ok([comparators |-> hyphenComparators(fromToken.value, toToken.value)])

\* Lines 506-507: the comparators of the parsed tokens, flattened.
TokenSet(parsed) ==
  IF parsed.err THEN parsed ELSE Ok([comparators |-> FlatSeq(parsed.value)])

\* Lines 504-507: tokens = part.split(/\s+/).filter(Boolean), each parsed in turn.
TokensSet(tokens) ==
  TokenSet(Collect([i \in DOMAIN tokens |-> parseComparatorToken(tokens[i])]))

\* The callback of orParts.map in buildRangeSets: one range set, or the Error.
RangeSetOfMatch(part, hyphen) ==
  IF hyphen # Null
  THEN HyphenSet(parseVersionToken(hyphen.from), parseVersionToken(hyphen.to))
  ELSE TokensSet(NonEmpty(SplitChars(part, WS)))

RangeSetOf(part) == RangeSetOfMatch(part, HyphenMatch(part))

\* Lines 496-508 of buildRangeSets.
SetsOfParts(orParts) ==
  IF Len(orParts) = 0 THEN Thrown("empty range expression", <<>>)
  ELSE Collect([i \in DOMAIN orParts |-> RangeSetOf(orParts[i])])

\* Lines 492-495: raw.split("||").map((part) => part.trim()).filter(Boolean)
OrParts(pieces) == NonEmpty([i \in DOMAIN pieces |-> Trim(pieces[i])])

\* buildRangeSets(raw): Ok(sets) or the Error thrown.
buildRangeSets(raw) == SetsOfParts(OrParts(SplitStr(raw, <<"|", "|">>)))

\* The fixed wordings of the Errors thrown, as text.
WordingText ==
  [w \in {"empty version segment", "empty range expression",
          "too many version segments in", "invalid numeric value in"} |->
     CASE w = "empty version segment" ->
          << "e", "m", "p", "t", "y", " ", "v", "e", "r", "s", "i", "o", "n", " ", "s", "e", "g",
     "m", "e", "n", "t" >>
       [] w = "empty range expression" ->
          << "e", "m", "p", "t", "y", " ", "r", "a", "n", "g", "e", " ", "e", "x", "p", "r", "e",
     "s", "s", "i", "o", "n" >>
       [] w = "too many version segments in" ->
          << "t", "o", "o", " ", "m", "a", "n", "y", " ", "v", "e", "r", "s", "i", "o", "n", " ",
     "s", "e", "g", "m", "e", "n", "t", "s", " ", "i", "n" >>
       [] w = "invalid numeric value in" ->
          << "i", "n", "v", "a", "l", "i", "d", " ", "n", "u", "m", "e", "r", "i", "c", " ", "v",
     "a", "l", "u", "e", " ", "i", "n" >>]

\* err.message: the wording alone, or the wording and the offending text in
\* double quotes.
ErrorText(message) ==
  IF message.wording \in {"empty version segment", "empty range expression"}
  THEN WordingText[message.wording]
  ELSE WordingText[message.wording] \o <<" ", "\"">> \o message.text \o <<"\"">>

\* Warning: could not parse version range "
WarningHead ==
  << "W", "a", "r", "n", "i", "n", "g", ":", " ", "c", "o", "u", "l", "d", " ", "n", "o",
     "t", " ", "p", "a", "r", "s", "e", " ", "v", "e", "r", "s", "i", "o", "n", " ", "r",
     "a", "n", "g", "e", " ", "\"" >>

\* The warning text of parseVersionRange:
\* `Warning: could not parse version range "${trimmed}": ${err.message}`
WarningMessage(trimmed, message) ==
  WarningHead \o trimmed \o <<"\"", ":", " ">> \o ErrorText(message)

\* What parseVersionRange returns with the warning state untouched.
Returned(range, warningSet, warnings) ==
  [range |-> range, warningSet |-> warningSet, warnings |-> warnings]

\* A catch block that gives up on the specifier instead: anything matches.
CaughtAsAny(trimmed, message, warningSet, warnings) ==
  [range      |-> [type |-> "any", raw |-> Some(trimmed), sets |-> <<>>],
   warningSet |-> warningSet \cup {message},
   warnings   |-> IF message \in warningSet THEN warnings ELSE Append(warnings, message)]

\* A catch block that records its warning every time.
CaughtEveryTime(trimmed, message, warningSet, warnings) ==
  [range      |-> [type |-> "literal", raw |-> Some(trimmed), sets |-> <<>>],
   warningSet |-> warningSet \cup {message},
   warnings   |-> Append(warnings, message)]

\* The catch block of parseVersionRange (lines 535-542).
Caught(trimmed, message, warningSet, warnings) ==
  [range      |-> [type |-> "literal", raw |-> Some(trimmed), sets |-> <<>>],
   warningSet |-> warningSet \cup {message},
   warnings   |-> IF message \in warningSet THEN warnings ELSE Append(warnings, message)]

\* isExact looking at the first comparator of the first range set only.
isExactByFirst(sets) ==
  /\ Len(sets) >= 1
  /\ Len(sets[1].comparators) >= 1
  /\ sets[1].comparators[1].op = "="

isExact(sets) ==
  /\ Len(sets) = 1
  /\ Len(sets[1].comparators) = 1
  /\ sets[1].comparators[1].op = "="

\* Lines 521-534 of parseVersionRange, sets being what buildRangeSets returned.
RangeOfSets(trimmed, sets) ==
  IF \A i \in DOMAIN sets : Len(sets[i].comparators) = 0
  THEN [type |-> "any", raw |-> Some(trimmed), sets |-> sets]
  ELSE [type |-> IF isExact(sets) THEN "exact" ELSE "range",
        raw  |-> Some(trimmed),
        sets |-> sets,
        exactVersion |-> IF isExact(sets) THEN Some(sets[1].comparators[1].version.raw)
                         ELSE None]

\* A try statement that gives a text already warned about the type any.
RangeOfBuiltOnce(trimmed, built, warningSet, warnings) ==
  IF built.err
  THEN IF WarningMessage(trimmed, built.message) \in warningSet
       THEN Returned([type |-> "any", raw |-> Some(trimmed), sets |-> <<>>], warningSet, warnings)
       ELSE Caught(trimmed, WarningMessage(trimmed, built.message), warningSet, warnings)
  ELSE Returned(RangeOfSets(trimmed, built.value), warningSet, warnings)

\* The try statement of parseVersionRange (lines 519-542).
RangeOfBuilt(trimmed, built, warningSet, warnings) ==
  IF built.err
  THEN Caught(trimmed, WarningMessage(trimmed, built.message), warningSet, warnings)
  ELSE Returned(RangeOfSets(trimmed, built.value), warningSet, warnings)

\* Lines 516-543 of parseVersionRange.
RangeOfTrimmed(trimmed, warningSet, warnings) ==
  IF Len(trimmed) = 0 \/ isWildcardToken(trimmed)
  THEN Returned([type |-> "any",
                 raw  |-> IF Len(trimmed) = 0 THEN None ELSE Some(trimmed),
                 sets |-> <<>>], warningSet, warnings)
  ELSE RangeOfBuilt(trimmed, buildRangeSets(trimmed), warningSet, warnings)

\* parseVersionRange(raw), raw an optional string, with versionRangeWarningSet =
\* warningSet and versionRangeWarnings = warnings: the compiled specifier and
\* the two afterwards.
parseVersionRange(raw, warningSet, warnings) ==
  IF raw = None
  THEN Returned([type |-> "any", raw |-> None, sets |-> <<>>], warningSet, warnings)
  ELSE RangeOfTrimmed(Trim(raw[1]), warningSet, warnings)

\* ------------------------------------------------------------------------
\* Satisfaction evaluator
\* ------------------------------------------------------------------------

\* satisfiesComparator with <= and >= read as < and >.
satisfiesComparatorStrict(version, comparator) ==
  LET cmp == compareSemver(version, comparator.version)
  IN  CASE comparator.op = "="  -> cmp = 0
        [] comparator.op = ">"  -> cmp > 0
        [] comparator.op = ">=" -> cmp > 0
        [] comparator.op = "<"  -> cmp < 0
        [] comparator.op = "<=" -> cmp < 0
        [] OTHER -> FALSE

satisfiesComparator(version, comparator) ==
  LET cmp == compareSemver(version, comparator.version)
  IN  CASE comparator.op = "="  -> cmp = 0
        [] comparator.op = ">"  -> cmp > 0
        [] comparator.op = ">=" -> cmp >= 0
        [] comparator.op = "<"  -> cmp < 0
        [] comparator.op = "<=" -> cmp <= 0
        [] OTHER -> FALSE

\* The comparators left out: every version string that parses satisfies.
SatisfiesParsedAny(p, range) == [value |-> p.value # Null, cache |-> p.cache]

\* Lines 567-572 of satisfiesRange, p being what parseSemver returned.
SatisfiesParsed(p, range) ==
  [value |-> /\ p.value # Null
             /\ \/ Len(range.sets) = 0
                \/ \E i \in DOMAIN range.sets :
                     \/ Len(range.sets[i].comparators) = 0
                     \/ \A k \in DOMAIN range.sets[i].comparators :
                          satisfiesComparator(p.value, range.sets[i].comparators[k]),
   cache |-> p.cache]

\* satisfiesRange without its first line: a specifier of type any is evaluated
\* like a range.
satisfiesRangeParsedOnly(cache, versionString, range) ==
  IF range.type = "literal"
  THEN [value |-> (Some(versionString) = range.raw), cache |-> cache]
  ELSE SatisfiesParsed(parseSemver(cache, versionString), range)

\* satisfiesRange(versionString, range) with parsedSemverCache = cache: the
\* value returned and the cache afterwards.
satisfiesRange(cache, versionString, range) ==
  IF range.type = "any" THEN [value |-> TRUE, cache |-> cache]
  ELSE IF range.type = "literal"
  THEN [value |-> (Some(versionString) = range.raw), cache |-> cache]
  ELSE SatisfiesParsed(parseSemver(cache, versionString), range)

\* ------------------------------------------------------------------------
\* Request lines
\* ------------------------------------------------------------------------

\* String.prototype.lastIndexOf for a one-character needle, 1-based; 0 when absent.
LastIndexOf(s, c) ==
  IF \E i \in DOMAIN s : s[i] = c
  THEN CHOOSE i \in DOMAIN s : s[i] = c /\ \A j \in (i + 1)..Len(s) : s[j] # c
  ELSE 0

\* What parseSpec returns for a request: its name, its version (optional), its
\* compiled range, and the warning state afterwards.
Request(name, version, r) ==
  [skip |-> FALSE, name |-> name, version |-> version, range |-> r.range,
   warningSet |-> r.warningSet, warnings |-> r.warnings]

\* Lines 579-584 of parseSpec, version being s.slice(lastAt + 1).trim().
RequestAt(name, version, warningSet, warnings) ==
  IF Len(version) = 0
  THEN Request(name, None, parseVersionRange(None, warningSet, warnings))
  ELSE Request(name, Some(version), parseVersionRange(Some(version), warningSet, warnings))

\* Lines 577-586 of parseSpec, s being the trimmed line; lastAt is 1-based.
SpecOfTrimmed(s, lastAt, warningSet, warnings) ==
  IF Len(s) = 0 \/ s[1] = "#" \/ s = <<"-", "-", "-">>
  THEN [skip |-> TRUE, warningSet |-> warningSet, warnings |-> warnings]
  ELSE IF lastAt > 1
  THEN RequestAt(SubSeq(s, 1, lastAt - 1), Trim(Drop(s, lastAt)), warningSet, warnings)
  ELSE Request(s, None, parseVersionRange(None, warningSet, warnings))

\* parseSpec(line): skip = TRUE for a line that is no request (null), else the
\* request and the warning state afterwards.
parseSpec(line, warningSet, warnings) ==
  SpecOfTrimmed(Trim(line), LastIndexOf(Trim(line), "@"), warningSet, warnings)

\* ------------------------------------------------------------------------
\* Inputs: version strings and specifier texts, written out from a description
\* ------------------------------------------------------------------------

\* Version components range over 0..MaxNum.
MaxNum == 2

Nums == 0..MaxNum

\* ids joined by "."
RECURSIVE JoinIds(_)
JoinIds(ids) ==
  IF Len(ids) = 0 THEN <<>>
  ELSE IF Len(ids) = 1 THEN ids[1]
  ELSE ids[1] \o <<".">> \o JoinIds(Tail(ids))

\* The identifiers used in prerelease and build tags.
IdAlpha == <<"a", "l", "p", "h", "a">>
IdBeta  == <<"b", "e", "t", "a">>
IdRc    == <<"r", "c">>
IdBuild == <<"b", "u", "i", "l", "d">>

\* A version as written: the numbers of its first `precision` components, its
\* prerelease and build identifiers, with or without a leading v.
VersionInput(nums, pre, build, v) ==
  [kind |-> "version", nums |-> nums, pre |-> pre, build |-> build, v |-> v]

\* A string that is no version.
JunkInput(text) == [kind |-> "junk", text |-> text]

\* The text of a version or token description.
TagText(pre, build) ==
  (IF Len(pre) > 0 THEN <<"-">> \o JoinIds(pre) ELSE <<>>)
    \o (IF Len(build) > 0 THEN <<"+">> \o JoinIds(build) ELSE <<>>)

WrittenVersion(in) ==
  (IF in.v THEN <<"v">> ELSE <<>>)
    \o JoinIds([i \in DOMAIN in.nums |-> IntToStr(in.nums[i])])
    \o TagText(in.pre, in.build)

VersionText(in) ==
  IF in.kind = "junk" THEN in.text
  ELSE IF in.kind = "padded" THEN <<" ">> \o WrittenVersion(in.of) \o <<" ">>
  ELSE WrittenVersion(in)

\* All number sequences of length n over Nums.
NumSeqs(n) == [1..n -> Nums]

\* The prerelease tags compared in the ordering: none, alpha, alpha.1, beta,
\* alpha.beta, the numeric 1, 2, 10 and the zero-padded 01.
PreTags ==
  { <<>>, <<IdAlpha>>, <<IdAlpha, <<"1">>>>, <<IdBeta>>, <<IdAlpha, IdBeta>>,
    <<(<<"1">>)>>, <<(<<"2">>)>>, <<(<<"1", "0">>)>>, <<(<<"0", "1">>)>>, <<IdRc, <<"1">>>> }

\* The versions handed to compareSemver: every plain triple, 1.0.0 with each
\* prerelease tag, and build metadata on a plain and on a prerelease version.
CompareInputs ==
  { VersionInput(ns, <<>>, <<>>, FALSE) : ns \in NumSeqs(3) }
    \cup { VersionInput(<<1, 0, 0>>, pre, <<>>, FALSE) : pre \in PreTags }
    \cup { VersionInput(<<1, 0, 0>>, pre, <<IdBuild>>, FALSE) : pre \in {<<>>, <<IdAlpha>>} }

\* A version token as written in a specifier: the numbers of its `Len(nums)`
\* components, the positions (2, 3) written as the wildcard character wc instead
\* of their number, and its prerelease and build identifiers.
TokenInput(nums, wild, wc, pre, build) ==
  [nums |-> nums, wild |-> wild, wc |-> wc, pre |-> pre, build |-> build, v |-> FALSE]

\* The token with a leading v.
Prefixed(t) == [t EXCEPT !.v = TRUE]

TokenText(t) ==
  (IF t.v THEN <<"v">> ELSE <<>>) \o JoinIds([i \in DOMAIN t.nums |-> IF i \in t.wild THEN <<t.wc>> ELSE IntToStr(t.nums[i])])
    \o TagText(t.pre, t.build)

PlainToken(nums) == TokenInput(nums, {}, "x", <<>>, <<>>)

\* A specifier as written: alternatives joined by " || "; an alternative is a
\* hyphen range "A - B" or items joined by " "; an item is an operator prefix
\* and a token.
Item(op, token) == [op |-> op, token |-> token]
Items(items) == [hyphen |-> FALSE, items |-> items]
Hyphen(from, to) == [hyphen |-> TRUE, from |-> from, to |-> to]
SpecInput(sides) == [kind |-> "spec", sides |-> sides]

\* A specifier given as its text: the text proper, core, and the blanks written
\* before and after it.
TextInput(left, core, right) ==
  [kind |-> "text", text |-> left \o core \o right, core |-> core]

RECURSIVE JoinWith(_, _)
JoinWith(ss, sep) ==
  IF Len(ss) = 0 THEN <<>>
  ELSE IF Len(ss) = 1 THEN ss[1]
  ELSE ss[1] \o sep \o JoinWith(Tail(ss), sep)

SideText(side) ==
  IF side.hyphen THEN TokenText(side.from) \o <<" ", "-", " ">> \o TokenText(side.to)
  ELSE JoinWith([i \in DOMAIN side.items |->
                   side.items[i].op \o TokenText(side.items[i].token)], <<" ">>)

SpecText(in) ==
  IF in.kind = "text" THEN in.text
  ELSE JoinWith([i \in DOMAIN in.sides |-> SideText(in.sides[i])], <<" ", "|", "|", " ">>)

\* The operator prefixes: none, ^, ~, =, <, <=, >, >=.
Prefixes == { <<>>, <<"^">>, <<"~">>, <<"=">>, <<"<">>, <<"<", "=">>, <<">">>, <<">", "=">> }

\* The tokens: every plain token of one, two and three components; the tokens
\* with a lower-case x for the patch, for the minor, or for both; 1.2.X, 1.2.*,
\* 1.X and 1.*; the triples over 0..1 with the prerelease tag rc.1; 1.2.0 with
\* build metadata; v1.2.0.
Tokens ==
  { PlainToken(ns) : ns \in NumSeqs(1) \cup NumSeqs(2) \cup NumSeqs(3) }
    \cup { TokenInput(ns, {3}, "x", <<>>, <<>>) : ns \in { <<q[1], q[2], 0>> : q \in NumSeqs(2) } }
    \cup { TokenInput(<<q[1], 0>>, {2}, "x", <<>>, <<>>) : q \in NumSeqs(1) }
    \cup { TokenInput(<<q[1], 0, 0>>, {2, 3}, "x", <<>>, <<>>) : q \in NumSeqs(1) }
    \cup { TokenInput(<<1, 2, 0>>, {3}, wc, <<>>, <<>>) : wc \in {"X", "*"} }
    \cup { TokenInput(<<1, 0>>, {2}, wc, <<>>, <<>>) : wc \in {"X", "*"} }
    \cup { TokenInput(ns, {}, "x", <<IdRc, <<"1">>>>, <<>>) : ns \in [1..3 -> 0..1] }
    \cup { TokenInput(<<1, 2, 0>>, {}, "x", <<>>, <<IdBuild>>),
           Prefixed(PlainToken(<<1, 2, 0>>)) }

\* One operator prefix and one token.
SingleInputs == { SpecInput(<<Items(<<Item(op, t)>>)>>) : op \in Prefixes, t \in Tokens }

\* The token that is a wildcard alone.
AnyToken(wc) == TokenInput(<<0>>, {1}, wc, <<>>, <<>>)

RcToken(nums) == TokenInput(nums, {}, "x", <<IdRc, <<"1">>>>, <<>>)

\* The two sides of the hyphen ranges.
HyphenFrom ==
  { PlainToken(<<0, 1, 0>>), PlainToken(<<1>>), PlainToken(<<1, 1>>), RcToken(<<1, 0, 0>>),
    TokenInput(<<1, 0>>, {2}, "x", <<>>, <<>>), AnyToken("*") }

HyphenTo ==
  { PlainToken(ns) : ns \in NumSeqs(1) \cup NumSeqs(2) }
    \cup { PlainToken(<<1, 1, 1>>), PlainToken(<<2, 0, 0>>), RcToken(<<1, 1, 1>>),
           TokenInput(<<1, 0>>, {2}, "x", <<>>, <<>>),
           TokenInput(<<2, 0, 0>>, {2, 3}, "x", <<>>, <<>>),
           TokenInput(<<1, 1, 0>>, {3}, "x", <<>>, <<>>), AnyToken("x") }

HyphenInputs == { SpecInput(<<Hyphen(a, b)>>) : a \in HyphenFrom, b \in HyphenTo }

\* Specifiers of several items and of several alternatives.
Bare(nums) == Item(<<>>, PlainToken(nums))

ComposedInputs ==
  { SpecInput(<<Items(<<Item(<<">", "=">>, PlainToken(<<1, 0, 0>>)),
                        Item(<<"<">>, PlainToken(<<2, 0, 0>>))>>)>>),
    SpecInput(<<Items(<<Item(<<"=">>, PlainToken(<<1, 0, 0>>)),
                        Item(<<"=">>, PlainToken(<<1, 0, 0>>))>>)>>),
    SpecInput(<<Items(<<Bare(<<1, 0, 0>>), Item(<<>>, AnyToken("*"))>>)>>),
    SpecInput(<<Items(<<Item(<<"^">>, AnyToken("x"))>>)>>),
    SpecInput(<<Items(<<Item(<<"=">>, AnyToken("X"))>>)>>),
    SpecInput(<<Items(<<Bare(<<1, 0, 0>>)>>), Items(<<Bare(<<2, 0, 0>>)>>)>>),
    SpecInput(<<Items(<<Bare(<<1, 0, 0>>)>>), Items(<<Bare(<<1, 0, 0>>)>>)>>),
    SpecInput(<<Items(<<Item(<<"^">>, PlainToken(<<1, 1, 0>>))>>),
                Items(<<Item(<<"~">>, PlainToken(<<0, 1>>))>>)>>),
    SpecInput(<<Items(<<Item(<<>>, AnyToken("*"))>>), Items(<<Bare(<<1, 0, 0>>)>>)>>),
    SpecInput(<<Items(<<Bare(<<1, 0, 0>>)>>), Items(<<Item(<<>>, AnyToken("*"))>>)>>),
    SpecInput(<<Items(<<Item(<<>>, AnyToken("*"))>>), Items(<<Item(<<>>, AnyToken("x"))>>)>>),
    SpecInput(<<Hyphen(PlainToken(<<0, 1>>), PlainToken(<<0, 2>>)),
                Items(<<Item(<<">">>, PlainToken(<<1, 1, 1>>))>>)>>) }

\* Specifiers given as text: the wildcards and the empty text, alone and
\* surrounded by blanks; texts with a structural error (four segments, a
\* component that is no number, an empty segment, an operator without a
\* version, an operator apart from its version), alone and surrounded by blanks.
AnyTexts == { <<>>, <<"*">>, <<"x">>, <<"X">> }

BrokenTexts ==
  { <<"1", ".", "2", ".", "0", ".", "1">>,
    <<"1", ".", "a", ".", "0">>,
    <<"1", ".", ".", "0">>,
    <<"1", ".", "2", ".">>,
    <<"^">>,
    <<">", "=", " ", "1", ".", "2", ".", "0">>,
    <<"1", ".", "0", ".", "0", " ", "|", "|", " ", "1", ".", "2", ".", "0", ".", "1">>,
    <<"|", "|">> }

TextInputs ==
  { TextInput(<<>>, t, <<>>) : t \in AnyTexts \cup BrokenTexts }
    \cup { TextInput(<<" ">>, t, <<" ">>) : t \in AnyTexts \cup BrokenTexts }
    \cup { TextInput(<<"\t">>, t, <<>>) : t \in BrokenTexts }

\* The specifier texts handed to parseVersionRange.
SpecInputs == SingleInputs \cup HyphenInputs \cup ComposedInputs \cup TextInputs

\* A line of the request list: a name, with or without an @ and what follows it.
LineInput(name, at, version) == [kind |-> "line", name |-> name, at |-> at, version |-> version]

LineText(in) == in.name \o (IF in.at THEN <<"@">> \o in.version ELSE <<>>)

Names == { <<"p", "k", "g">>, <<"@", "s", "/", "p">> }

LineInputs ==
  { LineInput(n, FALSE, <<>>) : n \in Names }
    \cup { LineInput(n, TRUE, t) :
             n \in Names,
             t \in { <<>>, <<" ">>, <<"*">>, <<"1", ".", "2", ".", "0">>,
                     <<"^", "1", ".", "2", ".", "0">>, <<" ", "1", ".", "2", " ">>,
                     <<"1", ".", "2", ".", "0", ".", "1">> } }
    \cup { LineInput(n, FALSE, <<>>) : n \in { <<>>, <<"#", " ", "c">>, <<"-", "-", "-">>, <<" ", "p", " ">> } }

\* At most MaxSpecs requests are read from the list file.
MaxSpecs == 3

\* The lines of the list file: the broken text 1.2.0.1 three times over (under
\* two names, once with a blank before it), two more broken texts, a range, a
\* name alone, and a comment.
RequestLines ==
  { LineInput(<<"p", "k", "g">>, TRUE, <<"1", ".", "2", ".", "0", ".", "1">>),
    LineInput(<<"p", "k", "g">>, TRUE, <<" ", "1", ".", "2", ".", "0", ".", "1">>),
    LineInput(<<"@", "s", "/", "p">>, TRUE, <<"1", ".", "2", ".", "0", ".", "1">>),
    LineInput(<<"p", "k", "g">>, TRUE, <<"1", ".", "a", ".", "0">>),
    LineInput(<<"p", "k", "g">>, TRUE, <<">", "=", " ", "1", ".", "2", ".", "0">>),
    LineInput(<<"p", "k", "g">>, TRUE, <<"^", "1", ".", "2", ".", "0">>),
    LineInput(<<"p", "k", "g">>, FALSE, <<>>),
    LineInput(<<"#", " ", "c">>, FALSE, <<>>) }

\* The version strings parsed between two requests.
CachedInputs ==
  { VersionInput(<<1, 2, 0>>, <<>>, <<>>, FALSE), JunkInput(<<"1", ".", "2", ".", "0", ".", "1">>) }

\* A version string with blanks around it.
PaddedInput(in) == [kind |-> "padded", of |-> in]

\* The version strings of the installed packages: every plain triple; the
\* triples over 0..1 with the prerelease tag rc.1; 1.0.0-alpha; versions of two
\* digits in one component; one and two components; a leading v; build
\* metadata; blanks around a version; strings that are no version, among them
\* the broken specifier texts.
VersionInputs ==
  { VersionInput(ns, <<>>, <<>>, FALSE) : ns \in NumSeqs(3) }
    \cup { VersionInput(ns, <<IdRc, <<"1">>>>, <<>>, FALSE) : ns \in [1..3 -> 0..1] }
    \cup { VersionInput(<<1, 0, 0>>, <<IdAlpha>>, <<>>, FALSE),
           VersionInput(<<1, 2, 10>>, <<>>, <<>>, FALSE),
           VersionInput(<<1, 10, 0>>, <<>>, <<>>, FALSE),
           VersionInput(<<10, 0, 0>>, <<>>, <<>>, FALSE),
           VersionInput(<<1>>, <<>>, <<>>, FALSE),
           VersionInput(<<1, 2>>, <<>>, <<>>, FALSE),
           VersionInput(<<1, 2, 0>>, <<>>, <<>>, TRUE),
           VersionInput(<<1, 2, 0>>, <<>>, <<IdBuild>>, FALSE),
           VersionInput(<<1, 0, 0>>, <<IdRc, <<"1">>>>, <<IdBuild>>, FALSE),
           VersionInput(<<2, 0, 0>>, <<IdRc, <<"1">>>>, <<>>, FALSE),
           PaddedInput(VersionInput(<<1, 2, 0>>, <<>>, <<>>, FALSE)) }
    \cup { JunkInput(t) : t \in { <<>>, <<"a", "b", "c">>, <<"1", ".", "2", ".", "0", "-">>,
                                  <<"*">>, <<"1", ".", "x">>, <<"^", "1", ".", "2", ".", "0">>,
                                  <<" ", "1", ".", "2", ".", "0", ".", "1">> } }
    \cup { JunkInput(t) : t \in BrokenTexts }

\* ------------------------------------------------------------------------
\* The package index
\* ------------------------------------------------------------------------

\* A Map is the sequence of its entries [key, value], in insertion order.
MapHas(map, key) == \E i \in DOMAIN map : map[i].key = key

MapGet(map, key) == map[CHOOSE i \in DOMAIN map : map[i].key = key].value

\* map.get(key) || empty
MapGetOr(map, key, empty) == IF MapHas(map, key) THEN MapGet(map, key) ELSE empty

\* map.set(key, value): a key the Map holds keeps its place.
MapSet(map, key, value) ==
  IF MapHas(map, key)
  THEN [i \in DOMAIN map |-> IF map[i].key = key THEN [key |-> key, value |-> value] ELSE map[i]]
  ELSE Append(map, [key |-> key, value |-> value])

\* Array.from(map.keys())
MapKeys(map) == [i \in DOMAIN map |-> map[i].key]

\* A location entry of the index. The metadata (provenance) is the object
\* pruneMetadata leaves: its source, and its integrity and specifier when given.
Entry(location, metadata) == [location |-> location, metadata |-> metadata]

\* addLocationEntry without the check on the location identifier: every
\* entry is pushed.
addLocationEntryAlways(arr, entry) ==
  IF Len(entry.location) = 0 THEN arr ELSE Append(arr, entry)

\* addLocationEntry(arr, entry): arr afterwards. (An entry is an object whose
\* location is a string.)
addLocationEntry(arr, entry) ==
  IF Len(entry.location) = 0 THEN arr
  ELSE IF \E i \in DOMAIN arr : arr[i].location = entry.location THEN arr
  ELSE Append(arr, entry)

\* !x for an optional string: undefined, null and "" are falsy.
Falsy(x) == x = None \/ x = Some(<<>>)

\* Lines 644-648 of addFoundPackage: the buckets are created on first sight.
AddedVersion(byVersion, version, entry) ==
  MapSet(byVersion, version, addLocationEntry(MapGetOr(byVersion, version, <<>>), entry))

AddedName(store, name, version, entry) ==
  MapSet(store, name, AddedVersion(MapGetOr(store, name, <<>>), version, entry))

\* addFoundPackage(store, name, version, entry): store afterwards. name and
\* version are optional strings (a manifest may lack them).
addFoundPackage(store, name, version, entry) ==
  IF Falsy(name) \/ Falsy(version) THEN store
  ELSE IF Len(entry.location) = 0 THEN store
  ELSE AddedName(store, name[1], version[1], entry)

\* The inner statement of mergePackageMaps with the locations of the source
\* put in place of those of the target.
MergedLocationsReplacing(store, locations) == locations

\* for (const loc of locations) addLocationEntry(store, loc)
RECURSIVE MergedLocations(_, _)
MergedLocations(store, locations) ==
  IF Len(locations) = 0 THEN store
  ELSE MergedLocations(addLocationEntry(store, Head(locations)), Tail(locations))

\* The inner loop of mergePackageMaps.
RECURSIVE MergedVersions(_, _)
MergedVersions(targetVersions, versions) ==
  IF Len(versions) = 0 THEN targetVersions
  ELSE MergedVersions(
         MapSet(targetVersions, Head(versions).key,
                MergedLocations(MapGetOr(targetVersions, Head(versions).key, <<>>),
                                Head(versions).value)),
         Tail(versions))

\* mergePackageMaps(target, source): target afterwards.
RECURSIVE mergePackageMaps(_, _)
mergePackageMaps(target, source) ==
  IF Len(source) = 0 THEN target
  ELSE mergePackageMaps(
         MapSet(target, Head(source).key,
                MergedVersions(MapGetOr(target, Head(source).key, <<>>), Head(source).value)),
         Tail(source))

\* ------------------------------------------------------------------------
\* sortVersions
\* ------------------------------------------------------------------------

\* The characters of the version strings in the order of the root collation
\* (blank, punctuation, symbols), before the digits and the letters.
CollationOrder ==
  << " ", "_", "-", ",", ";", ":", "!", "?", ".", "'", "\"", "(", ")", "[", "]", "{", "}",
     "@", "*", "/", "\\", "&", "#", "%", "^", "+", "<", "=", ">", "|", "~" >>

\* One collation element of a string under { numeric: true }: a run of digits
\* is one element, compared by its value; any other character is one element.
Element(s) ==
  IF s[1] \in Digit
  THEN [rank |-> Len(CollationOrder) + 1, value |-> ParseInt(SubSeq(s, 1, TakeLen(s, Digit))),
        len |-> TakeLen(s, Digit)]
  ELSE IF \E i \in DOMAIN CollationOrder : CollationOrder[i] = s[1]
  THEN [rank |-> CHOOSE i \in DOMAIN CollationOrder : CollationOrder[i] = s[1], value |-> 0, len |-> 1]
  ELSE [rank |-> Len(CollationOrder) + 2, value |-> (CharCode[s[1]] % 32), len |-> 1]

RECURSIVE Elements(_)
ElementsAfter(s, e) == <<[rank |-> e.rank, value |-> e.value]>> \o Elements(Drop(s, e.len))

Elements(s) == IF Len(s) = 0 THEN <<>> ELSE ElementsAfter(s, Element(s))

\* The first difference of two element sequences.
RECURSIVE CompareElements(_, _)
CompareElements(x, y) ==
  IF Len(x) = 0 /\ Len(y) = 0 THEN 0
  ELSE IF Len(x) = 0 THEN -1
  ELSE IF Len(y) = 0 THEN 1
  ELSE IF Head(x).rank # Head(y).rank THEN (IF Head(x).rank < Head(y).rank THEN -1 ELSE 1)
  ELSE IF Head(x).value # Head(y).value THEN (IF Head(x).value < Head(y).value THEN -1 ELSE 1)
  ELSE CompareElements(Tail(x), Tail(y))

\* The case difference that decides between strings equal up to case: the
\* lower-case letter sorts first.
RECURSIVE CompareCase(_, _)
CompareCase(a, b) ==
  IF Len(a) = 0 \/ Len(b) = 0 THEN 0
  ELSE IF Head(a) = Head(b) \/ Head(a) \notin Letter \/ Head(b) \notin Letter
  THEN CompareCase(Tail(a), Tail(b))
  ELSE IF CharCode[Head(a)] > CharCode[Head(b)] THEN -1 ELSE 1

\* a.localeCompare(b, undefined, { numeric: true }) for strings of printable
\* ASCII: -1, 0 or 1.
LocaleOf(a, b, primary) == IF primary # 0 THEN primary ELSE CompareCase(a, b)

localeCompare(a, b) == LocaleOf(a, b, CompareElements(Elements(a), Elements(b)))

\* compareSemver(av, bv) when it decides, else the string order (lines 1154-1162).
OrderOfParsed(a, b, cmp) == IF cmp # 0 THEN cmp ELSE localeCompare(a, b)

\* The comparator of sortVersions with the parsed versions at hand.
OrderOf(a, b, av, bv) ==
  IF av # Null /\ bv # Null THEN OrderOfParsed(a, b, compareSemver(av, bv))
  ELSE IF av # Null THEN 1
  ELSE IF bv # Null THEN -1
  ELSE localeCompare(a, b)

\* The comparator of sortVersions, (a, b) => ..., with parsedSemverCache = cache.
VersionOrder(cache, a, b) ==
  OrderOf(a, b, parseSemver(cache, a).value, parseSemver(cache, b).value)

\* Array.prototype.sort is stable: v, which came after the elements of sorted,
\* goes before the first of them that the comparator places after it.
RECURSIVE SortedInsert(_, _, _)
SortedInsert(cache, sorted, v) ==
  IF Len(sorted) = 0 THEN <<v>>
  ELSE IF VersionOrder(cache, Head(sorted), v) > 0 THEN <<v>> \o sorted
  ELSE <<Head(sorted)>> \o SortedInsert(cache, Tail(sorted), v)

\* sortVersions(versions) with parsedSemverCache = cache: the sorted copy.
RECURSIVE sortVersions(_, _)
sortVersions(cache, versions) ==
  IF Len(versions) = 0 THEN <<>>
  ELSE SortedInsert(cache, sortVersions(cache, SubSeq(versions, 1, Len(versions) - 1)),
                    versions[Len(versions)])

\* ------------------------------------------------------------------------
\* matchSpecs
\* ------------------------------------------------------------------------

\* if (!allLocations.includes(loc.location)) allLocations.push(loc.location)
RECURSIVE WithLocations(_, _)
WithLocations(allLocations, locationsForVersion) ==
  IF Len(locationsForVersion) = 0 THEN allLocations
  ELSE WithLocations(
         IF \E i \in DOMAIN allLocations : allLocations[i] = Head(locationsForVersion).location
         THEN allLocations
         ELSE Append(allLocations, Head(locationsForVersion).location),
         Tail(locationsForVersion))

\* The arrays matchSpecs fills for one request, and the cache as it stands.
Arrays(matchedVersions, matchDetails, allLocations, nonSemverVersions, cache) ==
  [matchedVersions |-> matchedVersions, matchDetails |-> matchDetails,
   allLocations |-> allLocations, nonSemverVersions |-> nonSemverVersions, cache |-> cache]

\* The loop body with every version taken as a match.
TriedAlways(acc, version, locationsForVersion, parsed, satisfies) ==
  Arrays(Append(acc.matchedVersions, version),
         Append(acc.matchDetails, [version |-> version, locations |-> locationsForVersion]),
         WithLocations(acc.allLocations, locationsForVersion),
         acc.nonSemverVersions,
         satisfies.cache)

\* Lines 1180-1194: one version of the loop, parsed and satisfies being what
\* parseSemver and satisfiesRange returned for it.
Tried(acc, version, locationsForVersion, parsed, satisfies) ==
  Arrays(IF satisfies.value THEN Append(acc.matchedVersions, version) ELSE acc.matchedVersions,
         IF satisfies.value
         THEN Append(acc.matchDetails, [version |-> version, locations |-> locationsForVersion])
         ELSE acc.matchDetails,
         IF satisfies.value THEN WithLocations(acc.allLocations, locationsForVersion)
         ELSE acc.allLocations,
         IF parsed.value = Null /\ \A i \in DOMAIN acc.nonSemverVersions :
                                      acc.nonSemverVersions[i] # version
         THEN Append(acc.nonSemverVersions, version)
         ELSE acc.nonSemverVersions,
         satisfies.cache)

TriedParsed(acc, version, locationsForVersion, rangeInfo, parsed) ==
  Tried(acc, version, locationsForVersion, parsed, satisfiesRange(parsed.cache, version, rangeInfo))

\* for (const version of installedVersions) ...
RECURSIVE TriedAll(_, _, _, _)
TriedAll(acc, installedVersions, byVer, rangeInfo) ==
  IF Len(installedVersions) = 0 THEN acc
  ELSE TriedAll(TriedParsed(acc, Head(installedVersions),
                            MapGetOr(byVer, Head(installedVersions), <<>>), rangeInfo,
                            parseSemver(acc.cache, Head(installedVersions))),
                Tail(installedVersions), byVer, rangeInfo)

\* specKey({ name, version })
specKey(spec) == IF Falsy(spec.version) THEN spec.name ELSE spec.name \o <<"@">> \o spec.version[1]

\* Lines 1201-1206: the requested version as the report shows it.
RequestedVersion(spec, rangeInfo) ==
  IF spec.version # None /\ Len(Trim(spec.version[1])) > 0 THEN Trim(spec.version[1])
  ELSE IF ~Falsy(rangeInfo.raw) THEN rangeInfo.raw[1]
  ELSE <<"(", "a", "n", "y", ")">>

\* found with a version known under the name counted as a match.
FoundIfInstalled(installedVersions, matchedVersions) == Len(installedVersions) > 0

\* const found = matchedVersions.length > 0
Found(installedVersions, matchedVersions) == Len(matchedVersions) > 0

\* exact for a specifier of type exact alone.
ExactOfTypeExact(rangeInfo, found) == rangeInfo.type = "exact" /\ found

\* const exact = rangeInfo && (type === "exact" || type === "literal") && found
\* (lines 1197-1200; rangeInfo is an object).
Exact(rangeInfo, found) == rangeInfo.type \in {"exact", "literal"} /\ found

\* Lines 1196-1221: the result pushed for one request.
ResultOf(spec, rangeInfo, installedVersions, acc) ==
  [request |-> specKey(spec),
   name |-> spec.name,
   requestedVersion |-> RequestedVersion(spec, rangeInfo),
   found |-> Found(installedVersions, acc.matchedVersions),
   exact |-> Exact(rangeInfo, Found(installedVersions, acc.matchedVersions)),
   installedVersions |-> installedVersions,
   matchedVersions |-> acc.matchedVersions,
   matchDetails |-> acc.matchDetails,
   allLocations |-> acc.allLocations,
   nonSemverVersions |-> acc.nonSemverVersions,
   rangeInfo |-> rangeInfo]

\* The body of the outer loop for one request: the result and the cache
\* afterwards. (spec.range is an object, so rangeInfo is spec.range.)
MatchedOne(spec, installedVersions, acc) ==
  [result |-> ResultOf(spec, spec.range, installedVersions, acc), cache |-> acc.cache]

MatchedSorted(spec, byVer, installedVersions, cache) ==
  MatchedOne(spec, installedVersions,
             TriedAll(Arrays(<<>>, <<>>, <<>>, <<>>, cache), installedVersions, byVer, spec.range))

MatchedSpec(spec, byVer, cache) ==
  MatchedSorted(spec, byVer, sortVersions(cache, MapKeys(byVer)), cache)

\* The lookup of line 1169 as a get-or-create: a name the index does not know
\* gets an empty bucket.
LookedCreating(index, name) == IF MapHas(index, name) THEN index ELSE MapSet(index, name, <<>>)

\* The index after installed.get(spec.name) || new Map() (line 1169): the new
\* Map stays apart from the index.
Looked(index, name) == index

\* for (const spec of specs) ...
RECURSIVE MatchedFrom(_, _, _, _)
MatchedNext(rs, requests, index, r) ==
  MatchedFrom(Append(rs, r.result), Tail(requests), Looked(index, Head(requests).name), r.cache)

MatchedFrom(rs, requests, index, cache) ==
  IF Len(requests) = 0 THEN [results |-> rs, cache |-> cache, index |-> index]
  ELSE MatchedNext(rs, requests, index,
                   MatchedSpec(Head(requests), MapGetOr(index, Head(requests).name, <<>>), cache))

\* matchSpecs(specs, installed) with parsedSemverCache = cache: the results,
\* and the cache and the index afterwards.
matchSpecs(requests, index, cache) == MatchedFrom(<<>>, requests, index, cache)

\* Lines 1380-1383: matchSpecs for every source of perSourcePackages, in the
\* order the sources were set: the results and the index of each source, and
\* the cache afterwards.
RECURSIVE PerSourceFrom(_, _, _, _, _)
PerSourceNext(done, indexes, packages, requests, source, r) ==
  PerSourceFrom(MapSet(done, source, r.results), MapSet(indexes, source, r.index),
                Tail(packages), requests, r.cache)

PerSourceFrom(done, indexes, packages, requests, cache) ==
  IF Len(packages) = 0 THEN [perSourceResults |-> done, packages |-> indexes, cache |-> cache]
  ELSE PerSourceNext(done, indexes, packages, requests, Head(packages).key,
                     matchSpecs(requests, Head(packages).value, cache))

\* A result of the combined index, its field sources not yet set.
Aggregate(r) == [f \in DOMAIN r \cup {"sources"} |-> IF f = "sources" THEN <<>> ELSE r[f]]

\* Lines 1390-1400: what agg.sources[source] is set to.
Breakdown(res) ==
  [found |-> res.found,
   exact |-> res.exact,
   installedVersions |-> res.installedVersions,
   matchedVersions |-> res.matchedVersions,
   matchDetails |-> res.matchDetails,
   allLocations |-> res.allLocations,
   nonSemverVersions |-> res.nonSemverVersions,
   requestedVersion |-> res.requestedVersion,
   rangeInfo |-> res.rangeInfo]

\* resultsByRequest.get(request) (line 1385): new Map(entries) keeps, for a key
\* that occurs more than once, the value of its last entry. 0 when absent.
ResultByRequest(rs, request) ==
  IF \E i \in DOMAIN rs : rs[i].request = request
  THEN CHOOSE i \in DOMAIN rs :
         rs[i].request = request /\ \A j \in (i + 1)..Len(rs) : rs[j].request # request
  ELSE 0

\* Lines 1387-1401 for one result of one source.
Attached(rs, source, res, agg) ==
  IF agg = 0 THEN rs
  ELSE [rs EXCEPT ![agg].sources = MapSet(rs[agg].sources, source, Breakdown(res))]

RECURSIVE AttachedList(_, _, _)
AttachedList(rs, source, resList) ==
  IF Len(resList) = 0 THEN rs
  ELSE AttachedList(Attached(rs, source, Head(resList), ResultByRequest(rs, Head(resList).request)),
                    source, Tail(resList))

\* Lines 1386-1403: for (const [source, resList] of perSourceResults) ...
RECURSIVE AttachedAll(_, _)
AttachedAll(rs, perSourceResults) ==
  IF Len(perSourceResults) = 0 THEN rs
  ELSE AttachedAll(AttachedList(rs, Head(perSourceResults).key, Head(perSourceResults).value),
                   Tail(perSourceResults))

\* Lines 1375-1403 of main with the requests, the combined index and the
\* per-source indexes: the results with their breakdowns, and the indexes and
\* the cache afterwards.
MatchedPerSource(r, p) ==
  [results |-> AttachedAll([i \in DOMAIN r.results |-> Aggregate(r.results[i])], p.perSourceResults),
   installed |-> r.index,
   perSourcePackages |-> p.packages,
   cache |-> p.cache]

MatchedCombined(requests, perSourcePackages, r) ==
  MatchedPerSource(r, PerSourceFrom(<<>>, <<>>, perSourcePackages, requests, r.cache))

MatchedAll(requests, index, perSourcePackages, cache) ==
  MatchedCombined(requests, perSourcePackages, matchSpecs(requests, index, cache))

\* ------------------------------------------------------------------------
\* The lockfile adapters
\* ------------------------------------------------------------------------

\* The object pruneMetadata leaves: null and "" fields are dropped (None).
pruneMetadata(source, integrity, specifier) ==
  [source |-> source,
   integrity |-> IF Falsy(integrity) THEN None ELSE integrity,
   specifier |-> IF Falsy(specifier) THEN None ELSE specifier]

\* A record an adapter emits.
Record(name, version, location, metadata) ==
  [name |-> name, version |-> version, location |-> location, metadata |-> metadata]

\* parts.lastIndexOf(x) on an array, 1-based; 0 when absent.
LastIndexIn(parts, x) ==
  IF \E i \in DOMAIN parts : parts[i] = x
  THEN CHOOSE i \in DOMAIN parts : parts[i] = x /\ \A j \in (i + 1)..Len(parts) : parts[j] # x
  ELSE 0

\* Lines 656-663 of nameFromPackagePath, rest being what follows node_modules.
NameOfRest(rest) ==
  IF Len(rest) = 0 THEN None
  ELSE IF StartsWith(rest[1], <<"@">>)
  THEN (IF Len(rest) < 2 THEN None ELSE Some(rest[1] \o <<"/">> \o rest[2]))
  ELSE Some(rest[1])

NameOfParts(parts, idx) ==
  IF idx = 0 THEN None ELSE NameOfRest(NonEmpty(SubSeq(parts, idx + 1, Len(parts))))

\* nameFromPackagePath(pkgPath): an optional string.
nameFromPackagePath(pkgPath) ==
  IF Len(pkgPath) = 0 THEN None
  ELSE NameOfParts(SplitChars(pkgPath, {"/"}),
                   LastIndexIn(SplitChars(pkgPath, {"/"}), <<"n", "o", "d", "e", "_", "m", "o", "d", "u", "l", "e", "s">>))

\* Lines 836-857 of parseNpmLockfile for one entry of data.packages.
NpmRecord(pkgPathKey, meta, derivedName, locationPrefix) ==
  IF Falsy(derivedName) \/ Falsy(meta.version) THEN <<>>
  ELSE << Record(derivedName, meta.version,
                 locationPrefix \o <<"#">> \o (IF Len(pkgPathKey) > 0 THEN pkgPathKey ELSE <<"r", "o", "o", "t">>),
                 pruneMetadata(<<"p", "a", "c", "k", "a", "g", "e", "-", "l", "o", "c", "k", ".", "j", "s", "o", "n">>, meta.integrity, None)) >>

RECURSIVE NpmRecords(_, _)
NpmRecords(packages, locationPrefix) ==
  IF Len(packages) = 0 THEN <<>>
  ELSE NpmRecord(Head(packages).key, Head(packages).value,
                 IF ~Falsy(Head(packages).value.name) THEN Head(packages).value.name
                 ELSE nameFromPackagePath(Head(packages).key),
                 locationPrefix)
         \o NpmRecords(Tail(packages), locationPrefix)

\* parseNpmLockfile(raw, locationPrefix). raw is a JSON text: JSON.parse throws
\* (raw.parses is FALSE) or returns raw.data, an object whose packages field is
\* the sequence of its entries. (No file of the model has a dependencies
\* field.)
parseNpmLockfile(raw, locationPrefix) ==
  IF ~raw.parses THEN <<>> ELSE NpmRecords(raw.data.packages, locationPrefix)

\* value.replace(/^['"]|['"]$/g, "")
stripQuotes(value) ==
  SubSeq(value,
         IF Len(value) > 0 /\ value[1] \in {"'", "\""} THEN 2 ELSE 1,
         IF Len(value) > 0 /\ value[Len(value)] \in {"'", "\""} THEN Len(value) - 1 ELSE Len(value))

\* String.prototype.endsWith
EndsWith(s, p) == Len(p) <= Len(s) /\ SubSeq(s, Len(s) - Len(p) + 1, Len(s)) = p

\* parts.join("/")
JoinParts(parts) == JoinWith(parts, <<"/">>)

\* The key { name, version, key } parsePnpmPackageKey returns, or null.
KeyOf(name, version, key) ==
  IF Len(name) = 0 \/ Len(version) = 0 THEN Null
  ELSE [name |-> name, version |-> version, key |-> key]

\* Lines 1110-1121: a key that starts with a slash, parts being the pieces of
\* the key without its leading slashes.
SlashKey(parts, locationKey) ==
  IF Len(parts) < 2 THEN Null
  ELSE IF Len(parts[Len(parts)]) = 0 THEN Null
  ELSE KeyOf(JoinParts(SubSeq(parts, 1, Len(parts) - 1)),
             IF IndexOf(parts[Len(parts)], "_") = 0 THEN parts[Len(parts)]
             ELSE SubSeq(parts[Len(parts)], 1, IndexOf(parts[Len(parts)], "_") - 1),
             locationKey)

\* Lines 1124-1134: a key name@version; atIndex is 1-based.
AtKey(key, atIndex, locationKey) ==
  IF atIndex <= 1 \/ atIndex = Len(key) THEN Null
  ELSE KeyOf(SubSeq(key, 1, atIndex - 1),
             IF IndexOf(Drop(key, atIndex), ":") # 0
                  /\ IndexOf(Drop(key, atIndex), ":") < Len(Drop(key, atIndex))
             THEN Drop(Drop(key, atIndex), IndexOf(Drop(key, atIndex), ":"))
             ELSE Drop(key, atIndex),
             locationKey)

\* Lines 1108-1134, key being the key without its quotes.
UnquotedKey(key) ==
  IF StartsWith(key, <<"/">>)
  THEN (IF Len(Drop(key, TakeLen(key, {"/"}))) = 0 THEN Null
        ELSE SlashKey(SplitChars(Drop(key, TakeLen(key, {"/"})), {"/"}), key))
  ELSE AtKey(key, LastIndexOf(key, "@"), key)

TrimmedKey(key) ==
  IF Len(key) = 0 THEN Null
  ELSE IF \/ (StartsWith(key, <<"\"">>) /\ EndsWith(key, <<"\"">>))
          \/ (StartsWith(key, <<"'">>) /\ EndsWith(key, <<"'">>))
  THEN UnquotedKey(SubSeq(key, 2, Len(key) - 1))
  ELSE UnquotedKey(key)

\* parsePnpmPackageKey(rawKey)
parsePnpmPackageKey(rawKey) == TrimmedKey(Trim(rawKey))

\* raw.split(/\r?\n/)
SplitLines(raw) ==
  [i \in DOMAIN SplitChars(raw, {"\n"}) |->
     IF i < Len(SplitChars(raw, {"\n"}))
          /\ EndsWith(SplitChars(raw, {"\n"})[i], <<"\r">>)
     THEN SubSeq(SplitChars(raw, {"\n"})[i], 1, Len(SplitChars(raw, {"\n"})[i]) - 1)
     ELSE SplitChars(raw, {"\n"})[i]]

\* The number of lines from line j on that start with four blanks: the body
\* of a package key.
RECURSIVE BodyLen(_, _)
BodyLen(lines, j) ==
  IF j > Len(lines) \/ ~StartsWith(lines[j], <<" ", " ", " ", " ">>) THEN 0 ELSE 1 + BodyLen(lines, j + 1)

\* Lines 1062-1082: the metadata bucket after one more line of the body.
\* (The bodies of the model hold integrity and specifier lines; resolution,
\* tarball and registry lines do not occur.)
BucketWith(bucket, inner) ==
  IF StartsWith(inner, <<"i", "n", "t", "e", "g", "r", "i", "t", "y", ":">>)
  THEN [bucket EXCEPT !.integrity = Some(stripQuotes(Trim(Drop(inner, 10))))]
  ELSE IF StartsWith(inner, <<"s", "p", "e", "c", "i", "f", "i", "e", "r", ":">>)
  THEN [bucket EXCEPT !.specifier = Some(stripQuotes(Trim(Drop(inner, 10))))]
  ELSE bucket

RECURSIVE BucketOf(_, _)
BucketOf(bucket, body) ==
  IF Len(body) = 0 THEN bucket ELSE BucketOf(BucketWith(bucket, Trim(Head(body))), Tail(body))

\* Lines 1083-1103: the record pushed for a package key and its body.
PnpmRecord(parsed, bucket, locationPrefix) ==
  Record(Some(parsed.name), Some(parsed.version), locationPrefix \o <<"#">> \o parsed.key,
         pruneMetadata(<<"p", "n", "p", "m", "-", "l", "o", "c", "k", ".", "y", "a", "m", "l">>, bucket.integrity, bucket.specifier))

\* The loop of parsePnpmLockfile from line i on (1-based).
RECURSIVE PnpmFrom(_, _, _, _, _)
PnpmKeyLine(lines, i, records, locationPrefix, parsed, n) ==
  IF parsed = Null THEN PnpmFrom(lines, i + 1, TRUE, records, locationPrefix)
  ELSE PnpmFrom(lines, i + 1 + n, TRUE,
                Append(records,
                       PnpmRecord(parsed,
                                  BucketOf([integrity |-> None, specifier |-> None],
                                           SubSeq(lines, i + 1, i + n)),
                                  locationPrefix)),
                locationPrefix)

PnpmFrom(lines, i, inPackages, records, locationPrefix) ==
  IF i > Len(lines) THEN records
  ELSE IF Len(Trim(lines[i])) = 0 THEN PnpmFrom(lines, i + 1, inPackages, records, locationPrefix)
  ELSE IF ~StartsWith(lines[i], <<" ">>)
  THEN PnpmFrom(lines, i + 1, Trim(lines[i]) = <<"p", "a", "c", "k", "a", "g", "e", "s", ":">>, records, locationPrefix)
  ELSE IF ~inPackages THEN PnpmFrom(lines, i + 1, inPackages, records, locationPrefix)
  ELSE IF ~StartsWith(lines[i], <<" ", " ">>)
  THEN PnpmFrom(lines, i + 1, inPackages, records, locationPrefix)
  ELSE IF ~EndsWith(Trim(lines[i]), <<":">>)
  THEN PnpmFrom(lines, i + 1, inPackages, records, locationPrefix)
  ELSE PnpmKeyLine(lines, i, records, locationPrefix,
                   parsePnpmPackageKey(SubSeq(Trim(lines[i]), 1, Len(Trim(lines[i])) - 1)),
                   BodyLen(lines, i + 1))

\* parsePnpmLockfile(raw, locationPrefix)
parsePnpmLockfile(raw, locationPrefix) == PnpmFrom(SplitLines(raw), 1, FALSE, <<>>, locationPrefix)

\* ------------------------------------------------------------------------
\* The collectors
\* ------------------------------------------------------------------------

\* A file as a read finds it: readFile rejects (readable is FALSE) or returns
\* raw. A JSON text is raw = [parses, data]: JSON.parse throws, or returns data.
\* Any other text is its characters.

\* addPackageFromNodeModules(pjPath, pkgDir, installed): installed afterwards,
\* manifest being the file at pjPath. (Reading a field of null throws too.)
addPackageFromNodeModules(manifest, pkgDir, store) ==
  IF ~manifest.readable THEN store
  ELSE IF ~manifest.raw.parses \/ manifest.raw.data = Null THEN store
  ELSE addFoundPackage(store, manifest.raw.data.name, manifest.raw.data.version,
                       Entry(pkgDir, [source |-> <<"n", "o", "d", "e", "_", "m", "o", "d", "u", "l", "e", "s">>, manifest |-> manifest.path]))

\* Lines 810-816 of collectFromLockfiles.
RECURSIVE AddedEntries(_, _)
AddedEntries(store, entries) ==
  IF Len(entries) = 0 THEN store
  ELSE AddedEntries(
         IF Falsy(Head(entries).name) \/ Falsy(Head(entries).version) THEN store
         ELSE addFoundPackage(store, Head(entries).name, Head(entries).version,
                              Entry(Head(entries).location, Head(entries).metadata)),
         Tail(entries))

\* The metadata of a manifest record (lines 895-899): what pruneMetadata keeps
\* and the section, which is never empty.
ManifestMetadata(cleaned, label) ==
  [source |-> cleaned.source, integrity |-> cleaned.integrity, specifier |-> cleaned.specifier,
   section |-> label]

\* Lines 892-905 of parsePackageManifest for one entry of a section. (The
\* values of the model are strings; String(versionRaw || "") is the value.)
ManifestRecord(name, versionRaw, label, locationPrefix) ==
  IF Len(name) = 0 \/ Len(Trim(versionRaw)) = 0 THEN <<>>
  ELSE << Record(Some(name), Some(Trim(versionRaw)), locationPrefix \o <<"#">> \o label \o <<"/">> \o name,
                 ManifestMetadata(pruneMetadata(<<"p", "a", "c", "k", "a", "g", "e", ".", "j", "s", "o", "n">>, None, Some(Trim(versionRaw))), label)) >>

RECURSIVE ManifestRecords(_, _, _)
ManifestRecords(deps, label, locationPrefix) ==
  IF Len(deps) = 0 THEN <<>>
  ELSE ManifestRecord(Head(deps).key, Head(deps).value, label, locationPrefix)
         \o ManifestRecords(Tail(deps), label, locationPrefix)

\* Lines 888-890: a section that is missing is passed over.
SectionRecords(data, field, locationPrefix) ==
  IF ~MapHas(data, field) THEN <<>> ELSE ManifestRecords(MapGet(data, field), field, locationPrefix)

\* The four sections, in the order of lines 881-886.
ManifestSections == << <<"d", "e", "p", "e", "n", "d", "e", "n", "c", "i", "e", "s">>, <<"d", "e", "v", "D", "e", "p", "e", "n", "d", "e", "n", "c", "i", "e", "s">>, <<"o", "p", "t", "i", "o", "n", "a", "l", "D", "e", "p", "e", "n", "d", "e", "n", "c", "i", "e", "s">>, <<"p", "e", "e", "r", "D", "e", "p", "e", "n", "d", "e", "n", "c", "i", "e", "s">> >>

\* parsePackageManifest(raw, locationPrefix). raw is a JSON text: JSON.parse
\* throws or returns raw.data, null or an object, the sequence of its
\* entries, whose sections are sequences of entries in turn.
parsePackageManifest(raw, locationPrefix) ==
  IF ~raw.parses THEN <<>>
  ELSE IF raw.data = Null THEN <<>>
  ELSE FlatSeq([s \in DOMAIN ManifestSections |->
                  SectionRecords(raw.data, ManifestSections[s], locationPrefix)])

\* LOCKFILE_PARSERS.get(base)(raw, locationPrefix), for the adapters of the
\* npm lockfiles, the manifest and the pnpm lockfiles.
ParsedBy(base, raw, locationPrefix) ==
  IF base \in {<<"p", "a", "c", "k", "a", "g", "e", "-", "l", "o", "c", "k", ".", "j", "s", "o", "n">>, <<"n", "p", "m", "-", "s", "h", "r", "i", "n", "k", "w", "r", "a", "p", ".", "j", "s", "o", "n">>}
  THEN parseNpmLockfile(raw, locationPrefix)
  ELSE IF base = <<"p", "a", "c", "k", "a", "g", "e", ".", "j", "s", "o", "n">>
  THEN parsePackageManifest(raw, locationPrefix)
  ELSE parsePnpmLockfile(raw, locationPrefix)

\* The body of the loop of collectFromLockfiles for one lockfile, path being
\* its path relative to the scan root: store afterwards.
CollectedFile(store, lockfile) ==
  IF ~lockfile.readable THEN store
  ELSE AddedEntries(store, ParsedBy(lockfile.base, lockfile.raw, <<"l", "o", "c", "k", "f", "i", "l", "e", ":">> \o lockfile.path))

\* ------------------------------------------------------------------------
\* The command line
\* ------------------------------------------------------------------------

\* String.prototype.toLowerCase
ToLower(s) ==
  [i \in DOMAIN s |-> IF CharCode[s[i]] \in 65..90 THEN Ascii[CharCode[s[i]] + 1] ELSE s[i]]

DEFAULT_SCAN_SOURCES == << <<"n", "o", "d", "e", "_", "m", "o", "d", "u", "l", "e", "s">>, <<"l", "o", "c", "k", "f", "i", "l", "e">> >>

VALID_SCAN_SOURCES == {DEFAULT_SCAN_SOURCES[i] : i \in DOMAIN DEFAULT_SCAN_SOURCES}

\* A Set is the sequence of its members in insertion order. set.add(x)
SetAdd(set, x) == IF \E i \in DOMAIN set : set[i] = x THEN set ELSE Append(set, x)

RECURSIVE SetAddAll(_, _)
SetAddAll(set, xs) == IF Len(xs) = 0 THEN set ELSE SetAddAll(SetAdd(set, Head(xs)), Tail(xs))

\* raw.split(",").map((p) => p.trim().toLowerCase()).filter(Boolean)
ScanParts(raw) ==
  NonEmpty([i \in DOMAIN SplitChars(raw, {","}) |-> ToLower(Trim(SplitChars(raw, {","})[i]))])

\* Lines 81-104: the options after a --scan argument whose value gave parts;
\* exit is the code of process.exit when it is called.
ScanOption(opt, parts) ==
  IF Len(parts) = 0 THEN opt
  ELSE IF \E i \in DOMAIN parts : parts[i] = <<"b", "o", "t", "h">>
  THEN [opt EXCEPT !.scanSources = DEFAULT_SCAN_SOURCES, !.scanSpecified = TRUE]
  ELSE IF \E i \in DOMAIN parts : parts[i] \notin VALID_SCAN_SOURCES
  THEN [opt EXCEPT !.exit = Some(2)]
  ELSE [opt EXCEPT !.scanSources = SetAddAll(IF opt.scanSpecified THEN opt.scanSources ELSE <<>>,
                                             parts),
                   !.scanSpecified = TRUE]

\* args[i + 1], truthy
HasValue(args, i) == i < Len(args) /\ Len(args[i + 1]) > 0

\* The loop over the arguments from args[i] on (lines 56-122).
RECURSIVE ArgsFrom(_, _, _)
ArgsFrom(args, i, opt) ==
  IF opt.exit # None \/ i > Len(args) THEN opt
  ELSE IF args[i] \in {<<"-", "f">>, <<"-", "-", "f", "i", "l", "e">>} /\ HasValue(args, i)
  THEN ArgsFrom(args, i + 2, [opt EXCEPT !.file = Some(args[i + 1])])
  ELSE IF args[i] \in {<<"-", "-", "j", "s", "o", "n">>, <<"-", "-", "n", "o", "-", "c", "o", "l", "o", "r">>, <<"-", "-", "v", "e", "r", "b", "o", "s", "e">>, <<"-", "v">>}
  THEN ArgsFrom(args, i + 1, opt)
  ELSE IF args[i] \in {<<"-", "-", "p", "a", "t", "h">>, <<"-", "p">>} /\ HasValue(args, i)
  THEN ArgsFrom(args, i + 2, opt)
  ELSE IF args[i] \in {<<"-", "-", "s", "c", "a", "n">>, <<"-", "s">>} /\ HasValue(args, i)
  THEN ArgsFrom(args, i + 2, ScanOption(opt, ScanParts(args[i + 1])))
  ELSE IF args[i] \in {<<"-", "h">>, <<"-", "-", "h", "e", "l", "p">>}
  THEN [opt EXCEPT !.exit = Some(0)]
  ELSE ArgsFrom(args, i + 1, opt)

\* Lines 124-127: no list file was named.
FileChecked(opt) ==
  IF opt.exit = None /\ opt.file = None THEN [opt EXCEPT !.exit = Some(2)] ELSE opt

\* The options the script starts main with, or the code it exited with.
ParsedArgs(args) ==
  FileChecked(ArgsFrom(args, 1, [file |-> None, scanSources |-> DEFAULT_SCAN_SOURCES,
                                 scanSpecified |-> FALSE, exit |-> None]))

\* scanSources.has(source)
Scans(opt, source) == \E i \in DOMAIN opt.scanSources : opt.scanSources[i] = source

\* readLines(filePath) of a file that was read: raw split, trimmed, filtered.
readLines(raw) == NonEmpty([i \in DOMAIN SplitLines(raw) |-> Trim(SplitLines(raw)[i])])

\* .map(parseSpec).filter(Boolean): the requests and the warning state after
\* the lines were parsed in order.
RECURSIVE SpecsFrom(_, _)
SpecsNext(acc, lines, r) ==
  SpecsFrom(IF r.skip THEN acc
            ELSE [specs |-> Append(acc.specs, [name |-> r.name, version |-> r.version,
                                               range |-> r.range]),
                  warningSet |-> r.warningSet, warnings |-> r.warnings],
            Tail(lines))

SpecsFrom(acc, lines) ==
  IF Len(lines) = 0 THEN acc
  ELSE SpecsNext(acc, lines, parseSpec(Head(lines), acc.warningSet, acc.warnings))

\* The exit code with one request found being enough.
ExitOfSome(rs) == IF \E i \in DOMAIN rs : rs[i].found THEN 0 ELSE 1

\* results.every((r) => r.found) ? 0 : 1
ExitOf(rs) == IF \A i \in DOMAIN rs : rs[i].found THEN 0 ELSE 1

\* ------------------------------------------------------------------------
\* Inputs: the command line, the list file and the files of the scan
\* ------------------------------------------------------------------------

\* At most MaxDirs package directories and MaxLockfiles lockfiles are met by
\* the walks.
MaxDirs == 2
MaxLockfiles == 2

\* The command lines: a list file alone; nothing; -f without a value; help
\* alone and after a list file; one source selected, before and after the
\* list file; a source that does not exist.
ArgLists ==
  { << <<"-", "f">>, <<"l", "i", "s", "t", ".", "t", "x", "t">> >>,
    << >>,
    << <<"-", "f">> >>,
    << <<"-", "-", "h", "e", "l", "p">> >>,
    << <<"-", "-", "f", "i", "l", "e">>, <<"l", "i", "s", "t", ".", "t", "x", "t">>, <<"-", "h">> >>,
    << <<"-", "-", "s", "c", "a", "n">>, <<" ", "L", "o", "c", "k", "f", "i", "l", "e">>, <<"-", "f">>, <<"l", "i", "s", "t", ".", "t", "x", "t">>, <<"-", "-", "j", "s", "o", "n">> >>,
    << <<"-", "f">>, <<"l", "i", "s", "t", ".", "t", "x", "t">>, <<"-", "s">>, <<"n", "o", "d", "e", "_", "m", "o", "d", "u", "l", "e", "s">> >>,
    << <<"-", "s">>, <<"l", "o", "c", "k", "f", "i", "l", "e", ",", "y", "a", "r", "n">>, <<"-", "f">>, <<"l", "i", "s", "t", ".", "t", "x", "t">> >> }

\* A file that readFile rejects.
Unreadable(path, base) == [path |-> path, base |-> base, readable |-> FALSE]

\* A text file, and what it is known to be: malformed or not, and the
\* records (name, version, key of the location, integrity) it declares.
TextFile(path, base, raw, malformed, records) ==
  [path |-> path, base |-> base, readable |-> TRUE, raw |-> raw, malformed |-> malformed,
   records |-> records]

\* A JSON file whose text does not parse.
BadJson(path, base) ==
  TextFile(path, base, [parses |-> FALSE], TRUE, <<>>)

\* A JSON file whose text parses to data.
JsonFile(path, base, data, records) ==
  TextFile(path, base, [parses |-> TRUE, data |-> data], FALSE, records)

\* A record a file declares.
Declared(name, version, key, integrity) ==
  [name |-> name, version |-> version, key |-> key, integrity |-> integrity]

\* The list files: an empty one; one exact request; a range, a comment and a
\* package no source knows; a text that does not compile; a name alone; the
\* same package twice; the same line twice.
ListFiles ==
  { <<>>,
    <<"p", "k", "g", "@", "1", ".", "2", ".", "0", "\n">>,
    <<"p", "k", "g", "@", "^", "1", ".", "2", ".", "0", "\n", "#", " ", "c", "\n", "\n", " ", " ", "o", "t", "h", "e", "r", "@", "1", ".", "0", ".", "0", " ", " ", "\n">>,
    <<"p", "k", "g", "@", "1", ".", "2", ".", "0", ".", "1">>,
    <<"p", "k", "g", "\n">>,
    <<"p", "k", "g", "@", "1", ".", "1", ".", "9", "\n", "p", "k", "g", "@", "1", ".", "x">>,
    <<"p", "k", "g", "@", "1", ".", "2", ".", "0", "\n", "p", "k", "g", "@", "1", ".", "2", ".", "0", "\n">> }

\* The package directories of the installed tree, in the order the walk meets
\* them, and the manifest of each.
RECURSIVE Nested(_)
Nested(k) == IF k <= 1 THEN <<>> ELSE <<"a", "/">> \o Nested(k - 1)

Dir(k) == <<"/", "r", "/">> \o Nested(k) \o <<"n", "o", "d", "e", "_", "m", "o", "d", "u", "l", "e", "s", "/", "p", "k", "g">>

ManifestPath(k) == Dir(k) \o <<"/", "p", "a", "c", "k", "a", "g", "e", ".", "j", "s", "o", "n">>

\* A manifest with the fields name and version (optional).
Manifest(k, name, version) ==
  JsonFile(ManifestPath(k), <<"p", "a", "c", "k", "a", "g", "e", ".", "j", "s", "o", "n">>, [name |-> name, version |-> version],
           IF name = None \/ version = None THEN <<>>
           ELSE << Declared(name[1], version[1], Dir(k), None) >>)

\* The manifests of the k-th package directory: unreadable; not JSON; pkg at
\* 1.2.0, at 1.10.0 and at 1.2.0.1, which is no version; one without a name.
ManifestInputs(k) ==
  { Unreadable(ManifestPath(k), <<"p", "a", "c", "k", "a", "g", "e", ".", "j", "s", "o", "n">>),
    BadJson(ManifestPath(k), <<"p", "a", "c", "k", "a", "g", "e", ".", "j", "s", "o", "n">>),
    Manifest(k, Some(<<"p", "k", "g">>), Some(<<"1", ".", "2", ".", "0">>)),
    Manifest(k, Some(<<"p", "k", "g">>), Some(<<"1", ".", "1", "0", ".", "0">>)),
    Manifest(k, Some(<<"p", "k", "g">>), Some(<<"1", ".", "2", ".", "0", ".", "1">>)),
    Manifest(k, None, Some(<<"1", ".", "2", ".", "0">>)) }

\* The path of the k-th lockfile, relative to the scan root.
LockPath(k, base) == Nested(k) \o base

\* An entry of a pnpm lockfile: a package key /name/version or name@version,
\* quoted or not, with or without an integrity line under it; or a line that
\* breaks the structure of the file.
SlashItem(name, version, quoted, integrity) ==
  [kind |-> "key", key |-> <<"/">> \o name \o <<"/">> \o version, name |-> name, version |-> version,
   quoted |-> quoted, integrity |-> integrity]

AtItem(name, version) ==
  [kind |-> "key", key |-> name \o <<"@">> \o version, name |-> name, version |-> version,
   quoted |-> FALSE, integrity |-> None]

BrokenItem == [kind |-> "broken"]

ItemText(item) ==
  IF item.kind = "broken" THEN <<" ", " ", "}", "{", "\n">>
  ELSE <<" ", " ">> \o (IF item.quoted THEN <<"'">> ELSE <<>>) \o item.key
         \o (IF item.quoted THEN <<"'">> ELSE <<>>) \o <<":", "\n">>
         \o (IF item.integrity = None THEN <<>>
             ELSE <<" ", " ", " ", " ", "i", "n", "t", "e", "g", "r", "i", "t", "y", ":", " ">> \o item.integrity[1] \o <<"\n">>)

PnpmText(items) ==
  <<"l", "o", "c", "k", "f", "i", "l", "e", "V", "e", "r", "s", "i", "o", "n", ":", " ", "5", "\n", "\n", "p", "a", "c", "k", "a", "g", "e", "s", ":", "\n", "\n">> \o FlatSeq([i \in DOMAIN items |-> ItemText(items[i])])

PnpmFile(k, items) ==
  TextFile(LockPath(k, <<"p", "n", "p", "m", "-", "l", "o", "c", "k", ".", "y", "a", "m", "l">>), <<"p", "n", "p", "m", "-", "l", "o", "c", "k", ".", "y", "a", "m", "l">>, PnpmText(items),
           \E i \in DOMAIN items : items[i].kind = "broken",
           [i \in DOMAIN SelectSeq(items, LAMBDA x : x.kind = "key") |->
              Declared(SelectSeq(items, LAMBDA x : x.kind = "key")[i].name,
                       SelectSeq(items, LAMBDA x : x.kind = "key")[i].version,
                       SelectSeq(items, LAMBDA x : x.kind = "key")[i].key,
                       SelectSeq(items, LAMBDA x : x.kind = "key")[i].integrity)])

\* An npm lockfile with pkg at 1.2.0 under node_modules/pkg.
NpmFile(k) ==
  JsonFile(LockPath(k, <<"p", "a", "c", "k", "a", "g", "e", "-", "l", "o", "c", "k", ".", "j", "s", "o", "n">>), <<"p", "a", "c", "k", "a", "g", "e", "-", "l", "o", "c", "k", ".", "j", "s", "o", "n">>,
           [packages |-> << [key |-> <<>>, value |-> [name |-> Some(<<"r", "o", "o", "t">>), version |-> None,
                                                     integrity |-> None]],
                            [key |-> <<"n", "o", "d", "e", "_", "m", "o", "d", "u", "l", "e", "s", "/", "p", "k", "g">>,
                             value |-> [name |-> None, version |-> Some(<<"1", ".", "2", ".", "0">>),
                                        integrity |-> Some(<<"s", "h", "a">>)]] >>],
           << Declared(<<"p", "k", "g">>, <<"1", ".", "2", ".", "0">>, <<"n", "o", "d", "e", "_", "m", "o", "d", "u", "l", "e", "s", "/", "p", "k", "g">>, Some(<<"s", "h", "a">>)) >>)

\* A manifest the lockfile walk meets: pkg declared as ^1.2.0 under
\* dependencies and as 1.2.0 after a blank under peerDependencies, no
\* devDependencies and empty optionalDependencies.
ManifestFile(k) ==
  JsonFile(LockPath(k, <<"p", "a", "c", "k", "a", "g", "e", ".", "j", "s", "o", "n">>), <<"p", "a", "c", "k", "a", "g", "e", ".", "j", "s", "o", "n">>,
           << [key |-> <<"d", "e", "p", "e", "n", "d", "e", "n", "c", "i", "e", "s">>, value |-> << [key |-> <<"p", "k", "g">>, value |-> <<"^", "1", ".", "2", ".", "0">>] >>],
              [key |-> <<"o", "p", "t", "i", "o", "n", "a", "l", "D", "e", "p", "e", "n", "d", "e", "n", "c", "i", "e", "s">>, value |-> <<>>],
              [key |-> <<"p", "e", "e", "r", "D", "e", "p", "e", "n", "d", "e", "n", "c", "i", "e", "s">>, value |-> << [key |-> <<"p", "k", "g">>, value |-> <<" ", "1", ".", "2", ".", "0">>] >>] >>,
           << Declared(<<"p", "k", "g">>, <<"^", "1", ".", "2", ".", "0">>, <<"d", "e", "p", "e", "n", "d", "e", "n", "c", "i", "e", "s", "/", "p", "k", "g">>, None),
              Declared(<<"p", "k", "g">>, <<"1", ".", "2", ".", "0">>, <<"p", "e", "e", "r", "D", "e", "p", "e", "n", "d", "e", "n", "c", "i", "e", "s", "/", "p", "k", "g">>, None) >>)

\* The lockfiles the walk may meet k-th, one after another: unreadable; not JSON; the npm lockfile; a pnpm lockfile
\* with pkg at 1.1.9 and at next; one with a broken line after its first
\* package; one that has the same key twice, with two integrity values; the
\* manifest.
LockInputs(k) ==
  << Unreadable(LockPath(k, <<"p", "a", "c", "k", "a", "g", "e", "-", "l", "o", "c", "k", ".", "j", "s", "o", "n">>), <<"p", "a", "c", "k", "a", "g", "e", "-", "l", "o", "c", "k", ".", "j", "s", "o", "n">>),
    BadJson(LockPath(k, <<"n", "p", "m", "-", "s", "h", "r", "i", "n", "k", "w", "r", "a", "p", ".", "j", "s", "o", "n">>), <<"n", "p", "m", "-", "s", "h", "r", "i", "n", "k", "w", "r", "a", "p", ".", "j", "s", "o", "n">>),
    NpmFile(k),
    PnpmFile(k, << SlashItem(<<"p", "k", "g">>, <<"1", ".", "1", ".", "9">>, FALSE, Some(<<"a">>)), AtItem(<<"p", "k", "g">>, <<"n", "e", "x", "t">>) >>),
    PnpmFile(k, << SlashItem(<<"p", "k", "g">>, <<"1", ".", "1", ".", "9">>, FALSE, None), BrokenItem >>),
    PnpmFile(k, << SlashItem(<<"p", "k", "g">>, <<"1", ".", "2", ".", "0">>, TRUE, Some(<<"a">>)),
                   SlashItem(<<"p", "k", "g">>, <<"1", ".", "2", ".", "0">>, FALSE, Some(<<"b">>)) >>),
    ManifestFile(k) >>

\* ------------------------------------------------------------------------
\* The ordering, by the rules of the specification (section 4.3), on the
\* descriptions of two versions
\* ------------------------------------------------------------------------

\* The number a digit string denotes, digit by digit from the left.
RECURSIVE RefValue(_, _)
RefValue(digits, acc) ==
  IF Len(digits) = 0 THEN acc
  ELSE RefValue(Tail(digits), 10 * acc + ((CHOOSE i \in 17..26 : Ascii[i] = Head(digits)) - 17))

RefIsNumber(id) == id # <<>> /\ \A i \in DOMAIN id : id[i] \in Digit

\* Lexicographic order of two strings by character code.
RECURSIVE RefLexLess(_, _)
RefLexLess(x, y) ==
  IF Len(y) = 0 THEN FALSE
  ELSE IF Len(x) = 0 THEN TRUE
  ELSE IF Head(x) # Head(y) THEN CharCode[Head(x)] < CharCode[Head(y)]
  ELSE RefLexLess(Tail(x), Tail(y))

\* One identifier before another: numeric ones by value, alphanumeric ones
\* lexicographically, a numeric one before an alphanumeric one.
RefIdLess(x, y) ==
  IF RefIsNumber(x) /\ RefIsNumber(y) THEN RefValue(x, 0) < RefValue(y, 0)
  ELSE IF RefIsNumber(x) THEN ~RefIsNumber(y)
  ELSE IF RefIsNumber(y) THEN FALSE
  ELSE RefLexLess(x, y)

\* Two identifiers the ordering cannot tell apart.
RefIdSame(x, y) == ~RefIdLess(x, y) /\ ~RefIdLess(y, x)

\* Identifier sequences, pairwise left to right; a proper prefix sorts lower.
RECURSIVE RefPreLess(_, _)
RefPreLess(p, q) ==
  IF Len(q) = 0 THEN FALSE
  ELSE IF Len(p) = 0 THEN TRUE
  ELSE IF RefIdLess(Head(p), Head(q)) THEN TRUE
  ELSE IF RefIdLess(Head(q), Head(p)) THEN FALSE
  ELSE RefPreLess(Tail(p), Tail(q))

\* A version triple with prerelease identifiers: [nums |-> <<major, minor, patch>>, pre].
RefLess(a, b) ==
  \/ a.nums[1] < b.nums[1]
  \/ a.nums[1] = b.nums[1] /\ a.nums[2] < b.nums[2]
  \/ a.nums[1] = b.nums[1] /\ a.nums[2] = b.nums[2] /\ a.nums[3] < b.nums[3]
  \/ /\ a.nums = b.nums
     /\ \/ Len(a.pre) > 0 /\ Len(b.pre) = 0
        \/ Len(a.pre) > 0 /\ Len(b.pre) > 0 /\ RefPreLess(a.pre, b.pre)

RefCompare(a, b) == IF RefLess(a, b) THEN -1 ELSE IF RefLess(b, a) THEN 1 ELSE 0

\* The version a description denotes: missing components are 0.
RefVersion(in) ==
  [nums |-> [i \in 1..3 |-> IF i <= Len(in.nums) THEN in.nums[i] ELSE 0], pre |-> in.pre]

\* ------------------------------------------------------------------------
\* The directory walks
\* ------------------------------------------------------------------------

\* A path is the sequence of its segments; a real directory is the path no
\* segment of which is a link. A file system gives, for every real directory,
\* the entries readdir returns, in order (a link names the real path it leads
\* to, or none when it leads nowhere), and the directories that cannot be
\* listed.
Dirent(name, kind, target) == [name |-> name, kind |-> kind, target |-> target]

\* fsp.realpath(cur/rest), cur a real path: none when it throws.
RECURSIVE Realpath(_, _, _)
RealpathVia(fs, cur, rest, named) ==
  IF Len(named) = 0 THEN None
  ELSE IF named[1].kind = "link"
  THEN (IF named[1].target = None THEN None ELSE Realpath(fs, named[1].target[1], Tail(rest)))
  ELSE Realpath(fs, Append(cur, Head(rest)), Tail(rest))

Realpath(fs, cur, rest) ==
  IF Len(rest) = 0 THEN Some(cur)
  ELSE IF cur \notin DOMAIN fs.entries THEN None
  ELSE RealpathVia(fs, cur, rest, SelectSeq(fs.entries[cur], LAMBDA e : e.name = Head(rest)))

\* fsp.readdir(dir, { withFileTypes: true }): none when it throws.
ReaddirOf(fs, real) ==
  IF real = None THEN None
  ELSE IF real[1] \notin DOMAIN fs.entries \/ real[1] \in fs.unlistable THEN None
  ELSE Some(fs.entries[real[1]])

readdir(fs, dir) == ReaddirOf(fs, Realpath(fs, <<>>, dir))

SafeRealpathOf(p, real) == IF real = None THEN p ELSE real[1]

safeRealpath(fs, p) == SafeRealpathOf(p, Realpath(fs, <<>>, p))

\* path.relative(from, to) for two absolute paths: .. for every segment of from
\* after the common prefix, then the segments of to after it, joined by /.
RECURSIVE CommonLen(_, _)
CommonLen(a, b) ==
  IF Len(a) = 0 \/ Len(b) = 0 \/ Head(a) # Head(b) THEN 0 ELSE 1 + CommonLen(Tail(a), Tail(b))

RelativeFrom(from, to, n) ==
  JoinWith([i \in 1..(Len(from) - n) |-> <<".", ".">>] \o SubSeq(to, n + 1, Len(to)), <<"/">>)

relative(from, to) == RelativeFrom(from, to, CommonLen(from, to))

\* path.isAbsolute
isAbsolute(p) == Len(p) > 0 /\ p[1] = "/"

\* isInsideRoot with the root taken for every candidate.
isInsideRootAlways(candidate, root) == TRUE

InsideRootOf(rel) ==
  IF Len(rel) = 0 THEN TRUE
  ELSE IF StartsWith(rel, <<".", ".">>) THEN FALSE
  ELSE ~isAbsolute(rel)

isInsideRoot(candidate, root) == InsideRootOf(relative(root, candidate))

isNodeModulesDir(p) == Len(p) > 0 /\ p[Len(p)] = <<"n", "o", "d", "e", "_", "m", "o", "d", "u", "l", "e", "s">>

pathHasNodeModules(p) == \E i \in DOMAIN p : p[i] = <<"n", "o", "d", "e", "_", "m", "o", "d", "u", "l", "e", "s">>

IGNORED_TOP_LEVEL ==
  { <<".", "g", "i", "t">>, <<".", "h", "g">>, <<".", "s", "v", "n">>, <<".", "i", "d", "e", "a">>, <<".", "v", "s", "c", "o", "d", "e">>, <<"d", "i", "s", "t">>, <<"b", "u", "i", "l", "d">>, <<"o", "u", "t">>, <<"c", "o", "v", "e", "r", "a", "g", "e">> }

SUPPORTED_LOCKFILENAMES ==
  { <<"p", "a", "c", "k", "a", "g", "e", "-", "l", "o", "c", "k", ".", "j", "s", "o", "n">>, <<"n", "p", "m", "-", "s", "h", "r", "i", "n", "k", "w", "r", "a", "p", ".", "j", "s", "o", "n">>, <<"p", "a", "c", "k", "a", "g", "e", ".", "j", "s", "o", "n">>, <<"y", "a", "r", "n", ".", "l", "o", "c", "k">>,
    <<"p", "n", "p", "m", "-", "l", "o", "c", "k", ".", "y", "a", "m", "l">>, <<"p", "n", "p", "m", "-", "l", "o", "c", "k", ".", "y", "m", "l">> }

\* The state of a walk: the stack, the set visited, rootReal, what was
\* yielded so far, and the real directories whose entries were read.
Walk(kind, fs, rootDir) ==
  [kind |-> kind, fs |-> fs, stack |-> <<rootDir>>, visited |-> {},
   rootReal |-> safeRealpath(fs, rootDir), yielded |-> <<>>, expanded |-> <<>>]

\* The paths one pass over the entries pushes (lines 687-694 and 717-728).
RECURSIVE Joined(_, _)
Joined(dir, entries) ==
  IF Len(entries) = 0 THEN <<>>
  ELSE <<Append(dir, Head(entries).name)>> \o Joined(dir, Tail(entries))

DirsPushed(dir, entries) ==
  Joined(dir, SelectSeq(entries, LAMBDA e :
    /\ e.kind \in {"dir", "link"}
    /\ ~(~pathHasNodeModules(Append(dir, e.name)) /\ e.name \in IGNORED_TOP_LEVEL)))

LockfilesYielded(dir, entries) ==
  Joined(dir, SelectSeq(entries, LAMBDA e :
    e.kind = "file" /\ e.name \in SUPPORTED_LOCKFILENAMES))

LockfilesPushed(dir, entries) ==
  Joined(dir, SelectSeq(entries, LAMBDA e :
    /\ ~(e.kind = "file" /\ e.name \in SUPPORTED_LOCKFILENAMES)
    /\ e.kind \in {"dir", "link"}
    /\ e.name # <<"n", "o", "d", "e", "_", "m", "o", "d", "u", "l", "e", "s">>
    /\ ~(~pathHasNodeModules(Append(dir, e.name)) /\ e.name \in IGNORED_TOP_LEVEL)))

\* The walk w with dir popped and realDir visited.
Popped(w, realDir) ==
  [w EXCEPT !.stack = SubSeq(w.stack, 1, Len(w.stack) - 1),
            !.visited = w.visited \cup {realDir}]

\* One pass of the loop of walkDirs (lines 669-695) with dir the top of the
\* stack, realDir its real path and entries what readdir gave.
DirsRead(w, dir, realDir, entries) ==
  IF entries = None THEN w
  ELSE [w EXCEPT !.expanded = Append(w.expanded, realDir),
                 !.stack = w.stack \o DirsPushed(dir, entries[1])]

DirsInside(w, dir, realDir) ==
  DirsRead(IF isNodeModulesDir(realDir) THEN [w EXCEPT !.yielded = Append(w.yielded, realDir)] ELSE w,
           dir, realDir, readdir(w.fs, dir))

DirsVisit(w, dir, realDir) ==
  IF realDir \in w.visited THEN [w EXCEPT !.stack = SubSeq(w.stack, 1, Len(w.stack) - 1)]
  ELSE IF ~isInsideRoot(realDir, w.rootReal) THEN Popped(w, realDir)
  ELSE DirsInside(Popped(w, realDir), dir, realDir)

walkDirs(w) == DirsVisit(w, w.stack[Len(w.stack)], safeRealpath(w.fs, w.stack[Len(w.stack)]))

\* One pass of the loop of walkLockfiles (lines 702-729).
LockfilesRead(w, dir, realDir, entries) ==
  IF entries = None THEN w
  ELSE [w EXCEPT !.expanded = Append(w.expanded, realDir),
                 !.yielded = w.yielded \o LockfilesYielded(dir, entries[1]),
                 !.stack = w.stack \o LockfilesPushed(dir, entries[1])]

LockfilesVisit(w, dir, realDir) ==
  IF realDir \in w.visited THEN [w EXCEPT !.stack = SubSeq(w.stack, 1, Len(w.stack) - 1)]
  ELSE IF ~isInsideRoot(realDir, w.rootReal) THEN Popped(w, realDir)
  ELSE LockfilesRead(Popped(w, realDir), dir, realDir, readdir(w.fs, dir))

walkLockfiles(w) ==
  LockfilesVisit(w, w.stack[Len(w.stack)], safeRealpath(w.fs, w.stack[Len(w.stack)]))

\* The trees walked. The scan root is /r, with the directories a (which holds
\* node_modules, a lockfile and the link l), b (which holds the link m and a
\* directory whose name begins with two dots), dist, and a lockfile; beside the
\* root lies /o with a lockfile and a node_modules of its own. Each of the two
\* links leads to one of the directories, to a file, or nowhere, and one of a
\* and b may be closed to listing.
Root == <<<<"r">>>>
DirA == <<<<"r">>, <<"a">>>>
DirB == <<<<"r">>, <<"b">>>>
Outside == <<<<"o">>>>

LinkTargets ==
  { None, Some(Root), Some(DirA), Some(DirB), Some(Outside),
    Some(<<<<"o">>, <<"n", "o", "d", "e", "_", "m", "o", "d", "u", "l", "e", "s">>>>), Some(<<<<"r">>, <<"p", "a", "c", "k", "a", "g", "e", "-", "l", "o", "c", "k", ".", "j", "s", "o", "n">>>>) }

Tree(l, m, closed) ==
  [entries |->
     (<<>> :> << Dirent(<<"r">>, "dir", None), Dirent(<<"o">>, "dir", None) >>)
     @@ (Root :> << Dirent(<<"p", "a", "c", "k", "a", "g", "e", "-", "l", "o", "c", "k", ".", "j", "s", "o", "n">>, "file", None), Dirent(<<"a">>, "dir", None),
                    Dirent(<<"b">>, "dir", None), Dirent(<<"d", "i", "s", "t">>, "dir", None) >>)
     @@ (DirA :> << Dirent(<<"n", "o", "d", "e", "_", "m", "o", "d", "u", "l", "e", "s">>, "dir", None), Dirent(<<"y", "a", "r", "n", ".", "l", "o", "c", "k">>, "file", None),
                    Dirent(<<"l">>, "link", l) >>)
     @@ (<<<<"r">>, <<"a">>, <<"n", "o", "d", "e", "_", "m", "o", "d", "u", "l", "e", "s">>>> :> << Dirent(<<"p", "k", "g">>, "dir", None) >>)
     @@ (<<<<"r">>, <<"a">>, <<"n", "o", "d", "e", "_", "m", "o", "d", "u", "l", "e", "s">>, <<"p", "k", "g">>>> :> << Dirent(<<"p", "a", "c", "k", "a", "g", "e", ".", "j", "s", "o", "n">>, "file", None),
                                                       Dirent(<<"d", "i", "s", "t">>, "dir", None) >>)
     @@ (<<<<"r">>, <<"a">>, <<"n", "o", "d", "e", "_", "m", "o", "d", "u", "l", "e", "s">>, <<"p", "k", "g">>, <<"d", "i", "s", "t">>>> :> <<>>)
     @@ (DirB :> << Dirent(<<"m">>, "link", m), Dirent(<<".", ".", "c">>, "dir", None) >>)
     @@ (<<<<"r">>, <<"b">>, <<".", ".", "c">>>> :> << Dirent(<<"p", "n", "p", "m", "-", "l", "o", "c", "k", ".", "y", "a", "m", "l">>, "file", None) >>)
     @@ (<<<<"r">>, <<"d", "i", "s", "t">>>> :> << Dirent(<<"y", "a", "r", "n", ".", "l", "o", "c", "k">>, "file", None) >>)
     @@ (Outside :> << Dirent(<<"p", "a", "c", "k", "a", "g", "e", "-", "l", "o", "c", "k", ".", "j", "s", "o", "n">>, "file", None),
                       Dirent(<<"n", "o", "d", "e", "_", "m", "o", "d", "u", "l", "e", "s">>, "dir", None), Dirent(<<"b", "a", "c", "k">>, "link", Some(Root)) >>)
     @@ (<<<<"o">>, <<"n", "o", "d", "e", "_", "m", "o", "d", "u", "l", "e", "s">>>> :> <<>>),
   unlistable |-> closed]

Trees ==
  { Tree(l, m, closed) : l \in LinkTargets, m \in LinkTargets, closed \in {{}, {DirA}, {DirB}} }

\* ------------------------------------------------------------------------
\* The runs
\* ------------------------------------------------------------------------

Init ==
  /\ parsedSemverCache = <<>>
  /\ versionRangeWarningSet = {}
  /\ versionRangeWarnings = <<>>
  /\ pc = "start"
  /\ cmpCall = Null
  /\ specCall = Null
  /\ satCall = Null
  /\ specs = <<>>
  /\ sources = <<>>
  /\ installed = <<>>
  /\ results = <<>>
  /\ exitCode = None
  /\ options = Null
  /\ collected = <<>>
  /\ disk = <<>>
  /\ walk = Null

\* Two version strings are parsed and the parsed versions compared, as the
\* comparator of sortVersions does.
CompareSemver ==
  /\ pc = "start"
  /\ \E a \in CompareInputs, b \in CompareInputs :
       LET av == parseSemver(parsedSemverCache, VersionText(a))
           bv == parseSemver(av.cache, VersionText(b))
       IN  /\ av.value # Null /\ bv.value # Null
           /\ parsedSemverCache' = bv.cache
           /\ cmpCall' = [a |-> a, b |-> b, av |-> av.value, bv |-> bv.value,
                          result |-> compareSemver(av.value, bv.value)]
  /\ pc' = "compared"
  /\ UNCHANGED <<versionRangeWarningSet, versionRangeWarnings, specCall, satCall, runVars>>

NextCompare == CompareSemver

SpecCompare == Init /\ [][NextCompare]_vars

\* The state after parseVersionRange returned r for the specifier in.
Compiling(in, r) ==
  /\ specCall' = [via |-> "parseVersionRange", input |-> in, skip |-> FALSE, name |-> None,
                  version |-> Some(SpecText(in)), range |-> r.range]
  /\ versionRangeWarningSet' = r.warningSet
  /\ versionRangeWarnings' = r.warnings
  /\ pc' = "compiled"

\* One specifier text is compiled.
ParseVersionRange ==
  /\ pc = "start"
  /\ \E in \in SpecInputs :
       Compiling(in, parseVersionRange(Some(SpecText(in)), versionRangeWarningSet,
                                       versionRangeWarnings))
  /\ UNCHANGED <<parsedSemverCache, cmpCall, satCall, runVars>>

\* The state after parseSpec returned r for the line in.
Requesting(in, r) ==
  IF r.skip
  THEN /\ specCall' = [via |-> "parseSpec", input |-> in, skip |-> TRUE, name |-> None,
                       version |-> None, range |-> Null]
       /\ pc' = "skipped"
       /\ UNCHANGED <<versionRangeWarningSet, versionRangeWarnings>>
  ELSE /\ specCall' = [via |-> "parseSpec", input |-> in, skip |-> FALSE, name |-> Some(r.name),
                       version |-> r.version, range |-> r.range]
       /\ versionRangeWarningSet' = r.warningSet
       /\ versionRangeWarnings' = r.warnings
       /\ pc' = "compiled"

\* One line of the request list is read.
ParseSpec ==
  /\ pc = "start"
  /\ \E in \in LineInputs :
       Requesting(in, parseSpec(LineText(in), versionRangeWarningSet, versionRangeWarnings))
  /\ UNCHANGED <<parsedSemverCache, cmpCall, satCall, runVars>>

\* The state after satisfiesRange returned r for the version string v.
Satisfying(v, r) ==
  /\ satCall' = [input |-> v, versionString |-> VersionText(v), value |-> r.value]
  /\ parsedSemverCache' = r.cache
  /\ pc' = "checked"

\* One installed version string is tried against the compiled specifier, as the
\* loop of matchSpecs does: the string is parsed, then handed to satisfiesRange.
SatisfiesRange ==
  /\ pc = "compiled"
  /\ \E v \in VersionInputs :
       Satisfying(v, satisfiesRange(parseSemver(parsedSemverCache, VersionText(v)).cache,
                                    VersionText(v), specCall.range))
  /\ UNCHANGED <<versionRangeWarningSet, versionRangeWarnings, cmpCall, specCall, runVars>>

Next == ParseVersionRange \/ ParseSpec \/ SatisfiesRange

\* The state after parseSpec returned r for one line of the list file:
\* .map(parseSpec).filter(Boolean) keeps the requests and drops the nulls.
Reading(r) ==
  IF r.skip
  THEN UNCHANGED <<specs, versionRangeWarningSet, versionRangeWarnings>>
  ELSE /\ specs' = Append(specs, [name |-> r.name, version |-> r.version, range |-> r.range])
       /\ versionRangeWarningSet' = r.warningSet
       /\ versionRangeWarnings' = r.warnings

\* The next line of the list file is read (main, line 1352).
ReadLine ==
  /\ pc \in {"start", "reading"}
  /\ Len(specs) < MaxSpecs
  /\ \E in \in RequestLines :
       Reading(parseSpec(LineText(in), versionRangeWarningSet, versionRangeWarnings))
  /\ pc' = "reading"
  /\ UNCHANGED <<parsedSemverCache, cmpCall, specCall, satCall, walk, sources, installed, results,
                 exitCode, options, collected, disk>>

\* A version string is parsed, filling the cache.
ParseSemver ==
  /\ pc \in {"start", "reading"}
  /\ \E v \in CachedInputs :
       parsedSemverCache' = parseSemver(parsedSemverCache, VersionText(v)).cache
  /\ pc' = "reading"
  /\ UNCHANGED <<versionRangeWarningSet, versionRangeWarnings, cmpCall, specCall, satCall,
                 runVars>>

NextRequests == ReadLine \/ ParseSemver

SpecRequests == Init /\ [][NextRequests]_vars

Spec == Init /\ [][Next]_vars

\* ------------------------------------------------------------------------
\* A run of the script
\* ------------------------------------------------------------------------

\* The files of one source met so far.
Met(source) == SelectSeq(disk, LAMBDA f : f.source = source)

\* A file the scan met, as the model keeps it.
From(source, file) == [source |-> source, file |-> file]

\* The stage main goes to once the list is read or a source is merged.
StageAfter(stage) ==
  IF stage = "list" /\ Scans(options, <<"n", "o", "d", "e", "_", "m", "o", "d", "u", "l", "e", "s">>) THEN "node_modules"
  ELSE IF stage \in {"list", "node_modules"} /\ Scans(options, <<"l", "o", "c", "k", "f", "i", "l", "e">>) THEN "lockfile"
  ELSE "match"

\* The state after the arguments were read with the outcome opt.
Parsing(args, opt) ==
  /\ options' = [args |-> args, file |-> opt.file, scanSources |-> opt.scanSources]
  /\ exitCode' = opt.exit
  /\ pc' = IF opt.exit = None THEN "list" ELSE "exited"

\* The script starts: the arguments are read (lines 36-131).
ParseArgs ==
  /\ pc = "start"
  /\ \E args \in ArgLists : Parsing(args, ParsedArgs(args))
  /\ UNCHANGED <<parsedSemverCache, versionRangeWarningSet, versionRangeWarnings, cmpCall,
                 specCall, satCall, walk, specs, sources, collected, installed, results, disk>>

\* The state after the lines of the list file were parsed.
Listed(r) ==
  /\ specs' = r.specs
  /\ versionRangeWarningSet' = r.warningSet
  /\ versionRangeWarnings' = r.warnings
  /\ pc' = StageAfter("list")
  /\ UNCHANGED exitCode

\* main reads the list file (line 1352). When the file cannot be read the
\* promise of main is rejected and nothing handles it: the process ends with
\* code 1.
ReadList ==
  /\ pc = "list"
  /\ \/ /\ disk' = Append(disk, From("list", Unreadable(options.file[1], options.file[1])))
        /\ exitCode' = Some(1)
        /\ pc' = "exited"
        /\ UNCHANGED <<specs, versionRangeWarningSet, versionRangeWarnings>>
     \/ \E raw \in ListFiles :
          /\ disk' = Append(disk, From("list", TextFile(options.file[1], options.file[1], raw,
                                                        FALSE, <<>>)))
          /\ Listed(SpecsFrom([specs |-> <<>>, warningSet |-> versionRangeWarningSet,
                               warnings |-> versionRangeWarnings],
                              readLines(raw)))
  /\ UNCHANGED <<parsedSemverCache, cmpCall, specCall, satCall, walk, options, sources, collected,
                 installed, results>>

\* collectFromNodeModules meets one more package directory and reads its
\* manifest (lines 768-770, 773-784).
AddPackageFromNodeModules ==
  /\ pc = "node_modules"
  /\ Len(Met("node_modules")) < MaxDirs
  /\ \E manifest \in ManifestInputs(Len(Met("node_modules")) + 1) :
       /\ collected' = addPackageFromNodeModules(manifest, Dir(Len(Met("node_modules")) + 1),
                                                 collected)
       /\ disk' = Append(disk, From("node_modules", manifest))
  /\ UNCHANGED <<parsedSemverCache, versionRangeWarningSet, versionRangeWarnings, pc, cmpCall,
                 specCall, satCall, walk, specs, options, sources, installed, results, exitCode>>

\* collectFromLockfiles meets one more lockfile (lines 789-817).
CollectLockfile ==
  /\ pc = "lockfile"
  /\ Len(Met("lockfile")) < MaxLockfiles
  /\ \E i \in DOMAIN LockInputs(Len(Met("lockfile")) + 1) :
       /\ collected' = CollectedFile(collected, LockInputs(Len(Met("lockfile")) + 1)[i])
       /\ disk' = Append(disk, From("lockfile", LockInputs(Len(Met("lockfile")) + 1)[i]))
  /\ UNCHANGED <<parsedSemverCache, versionRangeWarningSet, versionRangeWarnings, pc, cmpCall,
                 specCall, satCall, walk, specs, options, sources, installed, results, exitCode>>

\* A collector returns: its packages are merged into the combined index and
\* kept as the packages of the source (lines 1365-1367 and 1370-1372).
MergePackageMaps ==
  /\ pc \in {"node_modules", "lockfile"}
  /\ installed' = mergePackageMaps(installed, collected)
  /\ sources' = MapSet(sources, pc, collected)
  /\ collected' = <<>>
  /\ pc' = StageAfter(pc)
  /\ UNCHANGED <<parsedSemverCache, versionRangeWarningSet, versionRangeWarnings, cmpCall,
                 specCall, satCall, walk, specs, options, results, exitCode, disk>>

\* The state after the requests were matched with the outcome r.
Matching(r) ==
  /\ results' = r.results
  /\ installed' = r.installed
  /\ sources' = r.perSourcePackages
  /\ parsedSemverCache' = r.cache
  /\ pc' = "report"

\* The requests are matched against the combined index and against the index
\* of every source, and every result gets its breakdown (lines 1375-1403).
MatchSpecs ==
  /\ pc = "match"
  /\ Matching(MatchedAll(specs, installed, sources, parsedSemverCache))
  /\ UNCHANGED <<versionRangeWarningSet, versionRangeWarnings, cmpCall, specCall, satCall, walk,
                 specs, options, collected, exitCode, disk>>

\* The report is printed and the process exits (line 1516).
Exit ==
  /\ pc = "report"
  /\ exitCode' = Some(ExitOf(results))
  /\ pc' = "exited"
  /\ UNCHANGED <<parsedSemverCache, versionRangeWarningSet, versionRangeWarnings, cmpCall,
                 specCall, satCall, walk, specs, options, sources, collected, installed, results,
                 disk>>

NextMain ==
  \/ ParseArgs
  \/ ReadList
  \/ AddPackageFromNodeModules
  \/ CollectLockfile
  \/ MergePackageMaps
  \/ MatchSpecs
  \/ Exit

SpecMain == Init /\ [][NextMain]_vars

\* A walk is started on the scan root of one of the trees (lines 666-668 and
\* 699-701).
InitWalk ==
  /\ parsedSemverCache = <<>>
  /\ versionRangeWarningSet = {}
  /\ versionRangeWarnings = <<>>
  /\ pc = "walking"
  /\ cmpCall = Null
  /\ specCall = Null
  /\ satCall = Null
  /\ specs = <<>>
  /\ sources = <<>>
  /\ installed = <<>>
  /\ results = <<>>
  /\ exitCode = None
  /\ options = Null
  /\ collected = <<>>
  /\ disk = <<>>
  /\ walk \in { Walk(kind, fs, Root) : kind \in {"walkDirs", "walkLockfiles"}, fs \in Trees }

walkFrame ==
  <<parsedSemverCache, versionRangeWarningSet, versionRangeWarnings, cmpCall, specCall, satCall,
    specs, sources, installed, results, exitCode, options, collected, disk>>

\* One pass of the loop of walkDirs: a directory is popped and, when new and
\* inside the root, read.
WalkDirs ==
  /\ pc = "walking"
  /\ walk.kind = "walkDirs"
  /\ Len(walk.stack) > 0
  /\ walk' = walkDirs(walk)
  /\ UNCHANGED <<pc, walkFrame>>

\* One pass of the loop of walkLockfiles.
WalkLockfiles ==
  /\ pc = "walking"
  /\ walk.kind = "walkLockfiles"
  /\ Len(walk.stack) > 0
  /\ walk' = walkLockfiles(walk)
  /\ UNCHANGED <<pc, walkFrame>>

\* The stack is empty: the loop ends and the generator returns.
Walked ==
  /\ pc = "walking"
  /\ Len(walk.stack) = 0
  /\ pc' = "walked"
  /\ UNCHANGED <<walk, walkFrame>>

NextWalk == WalkDirs \/ WalkLockfiles \/ Walked

\* The walk is driven by the for await of its collector, which asks for the
\* next directory or lockfile until the generator returns.
SpecWalk == InitWalk /\ [][NextWalk]_vars /\ WF_vars(NextWalk)

\* ------------------------------------------------------------------------
\* C1
\* ------------------------------------------------------------------------

Compared == pc = "compared"

\* The versions of the chain 1.0.0-alpha < 1.0.0-alpha.1 < 1.0.0-beta < 1.0.0 < 1.0.1.
Chain ==
  << VersionInput(<<1, 0, 0>>, <<IdAlpha>>, <<>>, FALSE),
     VersionInput(<<1, 0, 0>>, <<IdAlpha, <<"1">>>>, <<>>, FALSE),
     VersionInput(<<1, 0, 0>>, <<IdBeta>>, <<>>, FALSE),
     VersionInput(<<1, 0, 0>>, <<>>, <<>>, FALSE),
     VersionInput(<<1, 0, 1>>, <<>>, <<>>, FALSE) >>

\* The order properties of the comparison made, and its agreement with the
\* rules: the result for (b, a) is the opposite, a version compares equal to
\* itself, a < b and b < c give a < c for every c, the result is the one the
\* rules give on major, minor, patch and the prerelease identifiers (so build
\* metadata has no part in it), and the chain is ascending.
OrderAndRules ==
  /\ cmpCall.result = RefCompare(RefVersion(cmpCall.a), RefVersion(cmpCall.b))
  /\ cmpCall.a = cmpCall.b => cmpCall.result = 0
  /\ compareSemver(cmpCall.bv, cmpCall.av) = 0 - cmpCall.result
  /\ \A c \in CompareInputs :
       (cmpCall.result < 0 /\ compareSemver(cmpCall.bv, ParseSemverMiss(VersionText(c))) < 0)
         => compareSemver(cmpCall.av, ParseSemverMiss(VersionText(c))) < 0
  /\ \A i \in 1..4 : (cmpCall.a = Chain[i] /\ cmpCall.b = Chain[i + 1]) => cmpCall.result = -1

\* An identifier by value: a numeric one is its number.
IdValue(id) == IF RefIsNumber(id) THEN IntToStr(RefValue(id, 0)) ELSE id

\* C1, in the words of the specification: compareSemver is a strict total order
\* following the rules, and it tells apart any two versions that differ in
\* major, minor, patch or in their prerelease identifiers.
C1_TotalOnDifferingIdentifiers ==
  Compared =>
    /\ OrderAndRules
    /\ (\/ RefVersion(cmpCall.a).nums # RefVersion(cmpCall.b).nums
        \/ cmpCall.a.pre # cmpCall.b.pre) => cmpCall.result # 0

\* C1, with identifiers taken by value: compareSemver is a strict order
\* following the rules, and it tells apart any two versions that differ in
\* major, minor, patch or in their prerelease identifiers taken by value (a
\* numeric identifier is the number it denotes, so 01 and 1 are the same
\* identifier).
C1_StrictOrder ==
  Compared =>
    /\ OrderAndRules
    /\ (\/ RefVersion(cmpCall.a).nums # RefVersion(cmpCall.b).nums
        \/ [i \in DOMAIN cmpCall.a.pre |-> IdValue(cmpCall.a.pre[i])]
             # [i \in DOMAIN cmpCall.b.pre |-> IdValue(cmpCall.b.pre[i])]) => cmpCall.result # 0

\* 1.0.0-alpha has been compared with 1.0.0-alpha.1 and found lower.
C1_Witness ==
  Compared /\ cmpCall.a = Chain[1] /\ cmpCall.b = Chain[2] /\ cmpCall.result = -1

\* ------------------------------------------------------------------------
\* What a compiled specifier says, and what the descriptions of the inputs say
\* ------------------------------------------------------------------------

Compiled == pc \in {"compiled", "checked"}
Checked == pc = "checked"
ViaRange == specCall.via = "parseVersionRange"

\* A bound on versions: an operator, a triple and prerelease identifiers.
RefBound(op, nums, pre) == [op |-> op, nums |-> nums, pre |-> pre]

\* The bound a comparator of a compiled specifier expresses.
Bound(c) ==
  RefBound(c.op, <<c.version.major, c.version.minor, c.version.patch>>, c.version.prerelease)

\* The bounds of a compiled specifier, range set by range set.
Bounds(range) ==
  [i \in DOMAIN range.sets |->
     [k \in DOMAIN range.sets[i].comparators |-> Bound(range.sets[i].comparators[k])]]

\* v, a triple with prerelease identifiers, is within the bound b.
RefHolds(v, b) ==
  CASE b.op = "="  -> RefCompare(v, b) = 0
    [] b.op = ">"  -> RefCompare(v, b) > 0
    [] b.op = ">=" -> RefCompare(v, b) >= 0
    [] b.op = "<"  -> RefCompare(v, b) < 0
    [] b.op = "<=" -> RefCompare(v, b) <= 0

\* The description of a version string says it is a version, and which.
IsVersion(v) == v.kind \in {"version", "padded"}
RefOf(v) == RefVersion(IF v.kind = "padded" THEN v.of ELSE v)

\* The specifier is one operator prefix op and one token.
Single(in, op) ==
  /\ in.kind = "spec"
  /\ Len(in.sides) = 1
  /\ ~in.sides[1].hyphen
  /\ Len(in.sides[1].items) = 1
  /\ in.sides[1].items[1].op = op

TheToken(in) == in.sides[1].items[1].token

\* The specifier is one hyphen range.
SingleHyphen(in) == in.kind = "spec" /\ Len(in.sides) = 1 /\ in.sides[1].hyphen

\* The token is a version: no wildcard, no leading v.
IsVersionToken(t) == t.wild = {} /\ ~t.v

\* The ceilings of the specification, for a version token X of triple n.
RefCaretCeiling(n) ==
  IF n[1] > 0 THEN <<n[1] + 1, 0, 0>>
  ELSE IF n[2] > 0 THEN <<n[1], n[2] + 1, 0>>
  ELSE <<n[1], n[2], n[3] + 1>>

RefTildeCeiling(X) ==
  IF Len(X.nums) = 1 THEN <<X.nums[1] + 1, 0, 0>> ELSE <<X.nums[1], X.nums[2] + 1, 0>>

\* The upper bound of a hyphen range ending in the version token B.
RefHyphenUpper(B) ==
  IF Len(B.nums) = 1 THEN RefBound("<", <<B.nums[1] + 1, 0, 0>>, <<>>)
  ELSE IF Len(B.nums) = 2 THEN RefBound("<", <<B.nums[1], B.nums[2] + 1, 0>>, <<>>)
  ELSE RefBound("<=", RefVersion(B).nums, B.pre)

\* The version string tried is a version within every one of the bounds.
WithinAll(bounds) ==
  /\ IsVersion(satCall.input)
  /\ \A k \in DOMAIN bounds : RefHolds(RefOf(satCall.input), bounds[k])

\* The compiled specifier is the one range set of these bounds, and the version
\* string tried satisfies it exactly when it is a version within them.
CompilesTo(bounds) ==
  /\ specCall.range.type \in {"exact", "range"}
  /\ Bounds(specCall.range) = <<bounds>>
  /\ Checked => (satCall.value = WithinAll(bounds))

\* ------------------------------------------------------------------------
\* C2
\* ------------------------------------------------------------------------

\* C2: for a compiled specifier of type exact or range, satisfiesRange is false
\* for a string that is no version, and for a version it is true exactly when
\* some range set has each of its comparators (=, <, <=, >, >=) hold for the
\* version in the ordering of section 4.3.
C2_SatisfiesSomeSet ==
  (Checked /\ specCall.range.type \in {"exact", "range"}) =>
    /\ \A i \in DOMAIN specCall.range.sets :
         \A k \in DOMAIN specCall.range.sets[i].comparators :
           specCall.range.sets[i].comparators[k].op \in {"=", "<", "<=", ">", ">="}
    /\ satCall.value = (\E i \in DOMAIN Bounds(specCall.range) :
                          WithinAll(Bounds(specCall.range)[i]))

\* ^1.1.0 || ~0.1 has been tried against 0.1.1, which is outside the first
\* range set and inside the second, and against which it is satisfied.
C2_Witness ==
  /\ Checked
  /\ specCall.range.type = "range"
  /\ Len(specCall.range.sets) = 2
  /\ ~WithinAll(Bounds(specCall.range)[1])
  /\ WithinAll(Bounds(specCall.range)[2])
  /\ satCall.value

\* ------------------------------------------------------------------------
\* C3, C4, C5
\* ------------------------------------------------------------------------

\* ^X for the version tokens X among Xs: the floor >=X and the ceiling
\* <(major+1).0.0 when major > 0, else <major.(minor+1).0 when minor > 0, else
\* <major.minor.(patch+1).
CaretOn(Xs) ==
  (Compiled /\ ViaRange /\ Single(specCall.input, <<"^">>) /\ TheToken(specCall.input) \in Xs) =>
    CompilesTo(<< RefBound(">=", RefVersion(TheToken(specCall.input)).nums,
                           TheToken(specCall.input).pre),
                  RefBound("<", RefCaretCeiling(RefVersion(TheToken(specCall.input)).nums),
                           <<>>) >>)

\* C3: for every version X, ^X compiles to the floor >=X and the caret ceiling,
\* and is satisfied by the versions from X up to, not including, the ceiling.
C3_CaretFloorAndCeiling == CaretOn({ t \in Tokens : IsVersionToken(t) })

\* ~X for the version tokens X among Xs: the floor >=X and the ceiling
\* <major.(minor+1).0, or <(major+1).0.0 when X is a major number alone.
TildeOn(Xs) ==
  (Compiled /\ ViaRange /\ Single(specCall.input, <<"~">>) /\ TheToken(specCall.input) \in Xs) =>
    CompilesTo(<< RefBound(">=", RefVersion(TheToken(specCall.input)).nums,
                           TheToken(specCall.input).pre),
                  RefBound("<", RefTildeCeiling(TheToken(specCall.input)), <<>>) >>)

\* C4: for every version X, ~X compiles to the floor >=X and the tilde ceiling,
\* and is satisfied by the versions from X up to, not including, the ceiling.
C4_TildeFloorAndCeiling == TildeOn({ t \in Tokens : IsVersionToken(t) })

\* A - B for the version tokens A among As and B among Bs: the lower bound >=A
\* with missing components 0, and the upper bound <=B when B has three
\* components, else exclusive, one above B's last component.
HyphenOn(As, Bs) ==
  (/\ Compiled /\ ViaRange /\ SingleHyphen(specCall.input)
   /\ specCall.input.sides[1].from \in As
   /\ specCall.input.sides[1].to \in Bs) =>
    CompilesTo(<< RefBound(">=", RefVersion(specCall.input.sides[1].from).nums,
                           specCall.input.sides[1].from.pre),
                  RefHyphenUpper(specCall.input.sides[1].to) >>)

\* C5: a hyphen range A - B compiles to >=A and to <=B for a B of three
\* components, to the exclusive bound one above B's last component otherwise,
\* and is satisfied by the versions within the two bounds.
C5_HyphenBounds ==
  HyphenOn({ t \in HyphenFrom : IsVersionToken(t) }, { t \in HyphenTo : IsVersionToken(t) })

\* The same three statements for the versions without prerelease identifiers.
CaretOnReleases == CaretOn({ t \in Tokens : IsVersionToken(t) /\ t.pre = <<>> })
TildeOnReleases == TildeOn({ t \in Tokens : IsVersionToken(t) /\ t.pre = <<>> })
HyphenOnReleases ==
  HyphenOn({ t \in HyphenFrom : IsVersionToken(t) /\ t.pre = <<>> },
           { t \in HyphenTo : IsVersionToken(t) /\ t.pre = <<>> })

\* ------------------------------------------------------------------------
\* C6
\* ------------------------------------------------------------------------

\* The bare token is M.N.x, M.x or M.x.x, the wildcard written x, X or *.
WildcardBare(in) ==
  /\ Single(in, <<>>)
  /\ ~TheToken(in).v /\ TheToken(in).pre = <<>> /\ TheToken(in).build = <<>>
  /\ <<Len(TheToken(in).nums), TheToken(in).wild>> \in {<<3, {3}>>, <<2, {2}>>, <<3, {2, 3}>>}

\* The token with its wildcard components left out: M.N or M.
Omitted(t) == PlainToken(IF 2 \in t.wild THEN <<t.nums[1]>> ELSE <<t.nums[1], t.nums[2]>>)

\* C6: a bare version with a wildcard component compiles to the range sets of
\* the bare version with that component omitted, M.N.x like M.N (>=M.N.0
\* <M.(N+1).0), M.x and M.x.x like M (>=M.0.0 <(M+1).0.0), and is satisfied by
\* the same version strings.
C6_WildcardLikeOmitted ==
  (Compiled /\ ViaRange /\ WildcardBare(specCall.input)) =>
    /\ specCall.range.type = "range"
    /\ specCall.range.sets =
         parseVersionRange(Some(TokenText(Omitted(TheToken(specCall.input)))), {}, <<>>).range.sets
    /\ CompilesTo(<< RefBound(">=", RefVersion(Omitted(TheToken(specCall.input))).nums, <<>>),
                     RefBound("<", RefTildeCeiling(Omitted(TheToken(specCall.input))), <<>>) >>)

\* 1.2.X has been compiled and 1.2.1 satisfies it.
C6_Witness ==
  /\ Checked /\ ViaRange
  /\ specCall.input = SpecInput(<<Items(<<Item(<<>>, TokenInput(<<1, 2, 0>>, {3}, "X", <<>>, <<>>))>>)>>)
  /\ satCall.input = VersionInput(<<1, 2, 1>>, <<>>, <<>>, FALSE)
  /\ satCall.value

\* ------------------------------------------------------------------------
\* C7
\* ------------------------------------------------------------------------

\* The specifier is a bare M.N.P.
BareFull(in) ==
  /\ Single(in, <<>>)
  /\ IsVersionToken(TheToken(in))
  /\ Len(TheToken(in).nums) = 3
  /\ TheToken(in).pre = <<>> /\ TheToken(in).build = <<>>

\* C7: a bare M.N.P compiles to type exact; the version string M.N.P satisfies
\* it, and no version that differs from it in major, minor or patch or that
\* carries prerelease identifiers does.
C7_BareFullIsExact ==
  (Compiled /\ ViaRange /\ BareFull(specCall.input)) =>
    /\ specCall.range.type = "exact"
    /\ Checked =>
         /\ satCall.input = VersionInput(TheToken(specCall.input).nums, <<>>, <<>>, FALSE)
              => satCall.value
         /\ (/\ IsVersion(satCall.input)
             /\ \/ RefOf(satCall.input).nums # TheToken(specCall.input).nums
                \/ RefOf(satCall.input).pre # <<>>) => ~satCall.value

\* 1.0.0 has been tried against the version 1.0.0-rc.1, which does not satisfy it.
C7_Witness ==
  /\ Checked /\ ViaRange
  /\ specCall.input = SpecInput(<<Items(<<Bare(<<1, 0, 0>>)>>)>>)
  /\ specCall.range.type = "exact"
  /\ satCall.input = VersionInput(<<1, 0, 0>>, <<IdRc, <<"1">>>>, <<>>, FALSE)
  /\ ~satCall.value

\* ------------------------------------------------------------------------
\* C8
\* ------------------------------------------------------------------------

\* The operators of the comparators a specifier is described to have, range set
\* by range set: none for a wildcard alone; = for a bare M.N.P; >= and < for a
\* caret, a tilde and a bare token of fewer components or with a wildcard; the
\* operator written otherwise; for a hyphen range >= and, after it, <= for an
\* upper end M.N.P and < for any other.
RefIsAny(t) == 1 \in t.wild
RefIsFull(t) == Len(t.nums) = 3 /\ t.wild = {}

RefOpName(op) ==
  CASE op = <<"=">> -> "="
    [] op = <<"<">> -> "<"
    [] op = <<"<", "=">> -> "<="
    [] op = <<">">> -> ">"
    [] op = <<">", "=">> -> ">="

RefItemOps(item) ==
  IF RefIsAny(item.token) THEN <<>>
  ELSE IF item.op = <<>> THEN (IF RefIsFull(item.token) THEN <<"=">> ELSE <<">=", "<">>)
  ELSE IF item.op \in {<<"^">>, <<"~">>} THEN <<">=", "<">>
  ELSE <<RefOpName(item.op)>>

RECURSIVE RefItemsOps(_)
RefItemsOps(items) ==
  IF Len(items) = 0 THEN <<>> ELSE RefItemOps(Head(items)) \o RefItemsOps(Tail(items))

RefSideOps(side) ==
  IF side.hyphen
  THEN (IF RefIsAny(side.from) THEN <<>> ELSE <<">=">>)
         \o (IF RefIsAny(side.to) THEN <<>> ELSE IF RefIsFull(side.to) THEN <<"<=">> ELSE <<"<">>)
  ELSE RefItemsOps(side.items)

RefOps(in) == [i \in DOMAIN in.sides |-> RefSideOps(in.sides[i])]

\* Every token of the specifier is written without a leading v.
RefWellFormed(in) ==
  \A i \in DOMAIN in.sides :
    IF in.sides[i].hyphen THEN ~in.sides[i].from.v /\ ~in.sides[i].to.v
    ELSE \A k \in DOMAIN in.sides[i].items : ~in.sides[i].items[k].token.v

\* The operators of the comparators of the compiled specifier.
Ops(range) ==
  [i \in DOMAIN range.sets |->
     [k \in DOMAIN range.sets[i].comparators |-> range.sets[i].comparators[k].op]]

\* C8: the compiled specifier has type exact if and only if it has exactly one
\* range set and that set holds exactly one comparator, of operator =; every
\* other specifier that compiles without error has type any, when all its range
\* sets are empty, or range; and the range sets are the ones the specifier text
\* is described to have.
C8_ExactIffOneEquals ==
  Compiled =>
    /\ specCall.range.type \in {"exact", "any", "range", "literal"}
    /\ (specCall.range.type = "exact") <=> (Ops(specCall.range) = << <<"=">> >>)
    /\ specCall.range.type # "literal" =>
         ((specCall.range.type = "any") <=>
            (\A i \in DOMAIN specCall.range.sets : Len(specCall.range.sets[i].comparators) = 0))
    /\ (ViaRange /\ specCall.input.kind = "spec" /\ RefWellFormed(specCall.input)) =>
         /\ specCall.range.type # "literal"
         /\ Ops(specCall.range) = RefOps(specCall.input)

\* 1.0.0 || 2.0.0 has been compiled: two range sets of one = comparator each,
\* and the type is range.
C8_Witness ==
  /\ pc = "compiled" /\ ViaRange
  /\ specCall.input = SpecInput(<<Items(<<Bare(<<1, 0, 0>>)>>), Items(<<Bare(<<2, 0, 0>>)>>)>>)
  /\ Ops(specCall.range) = << <<"=">>, <<"=">> >>
  /\ specCall.range.type = "range"

\* ------------------------------------------------------------------------
\* C9
\* ------------------------------------------------------------------------

\* The specifier is the text * or the empty text, or the request line carries no
\* version: the name alone, or the name and an @ with nothing after it.
StarEmptyOrAbsent ==
  \/ ViaRange /\ specCall.input.kind = "text" /\ specCall.input.text \in {<<"*">>, <<>>}
  \/ /\ specCall.via = "parseSpec" /\ ~specCall.skip
     /\ (~specCall.input.at \/ specCall.input.version = <<>>)

\* C9: *, the empty text and an absent version compile to type any, and a
\* specifier of type any is satisfied by every version string.
C9_AnyAlwaysSatisfied ==
  /\ (Compiled /\ StarEmptyOrAbsent) => specCall.range.type = "any"
  /\ (Checked /\ specCall.range.type = "any") => satCall.value

\* The line pkg@ has been read and the string abc, no version, tried against it.
C9_Witness ==
  /\ Checked
  /\ specCall.input = LineInput(<<"p", "k", "g">>, TRUE, <<>>)
  /\ specCall.range.type = "any"
  /\ satCall.input = JunkInput(<<"a", "b", "c">>)
  /\ satCall.value

\* ------------------------------------------------------------------------
\* C10
\* ------------------------------------------------------------------------

\* C10: a specifier text with a structural error compiles to type literal
\* holding the text without the blanks around it, and a literal specifier is
\* satisfied by a version string exactly when the string equals that text.
C10_LiteralOnError ==
  /\ (Compiled /\ ViaRange /\ specCall.input.kind = "text" /\ specCall.input.core \in BrokenTexts)
       => (specCall.range.type = "literal" /\ specCall.range.raw = <<specCall.input.core>>)
  /\ (/\ Compiled /\ specCall.via = "parseSpec" /\ ~specCall.skip
      /\ specCall.input.version \in BrokenTexts)
       => (specCall.range.type = "literal" /\ specCall.range.raw = <<specCall.input.version>>)
  /\ (Checked /\ specCall.range.type = "literal")
       => (satCall.value = (VersionText(satCall.input) = specCall.range.raw[1]))

\* The text 1.2.0.1 with blanks around it has been compiled and the version
\* string 1.2.0.1 tried against it, which satisfies it.
C10_Witness ==
  /\ Checked /\ ViaRange
  /\ specCall.input = TextInput(<<" ">>, <<"1", ".", "2", ".", "0", ".", "1">>, <<" ">>)
  /\ specCall.range.type = "literal"
  /\ satCall.input = JunkInput(<<"1", ".", "2", ".", "0", ".", "1">>)
  /\ satCall.value

\* ------------------------------------------------------------------------
\* C11
\* ------------------------------------------------------------------------

\* The texts of the requests read so far (the version of a request, as parseSpec
\* records it), and among them those described as broken.
TextsRead == { specs[i].version[1] : i \in { k \in DOMAIN specs : specs[k].version # None } }
BrokenRead == TextsRead \cap BrokenTexts

\* The recorded warning w is about the specifier text t.
WarningAbout(w, t) == StartsWith(w, WarningHead \o t \o <<"\"", ":", " ">>)

\* C11: after any sequence of compilations the warning list holds exactly one
\* warning for each distinct broken specifier text compiled, however often the
\* text recurred, and none for a specifier that compiled without error.
C11_OneWarningPerBrokenText ==
  /\ \A i \in DOMAIN specs :
       (specs[i].range.type = "literal")
         <=> (specs[i].version # None /\ specs[i].version[1] \in BrokenTexts)
  /\ Len(versionRangeWarnings) = Cardinality(BrokenRead)
  /\ \A t \in BrokenRead :
       Cardinality({ k \in DOMAIN versionRangeWarnings :
                       WarningAbout(versionRangeWarnings[k], t) }) = 1
  /\ \A t \in TextsRead \ BrokenTexts :
       \A k \in DOMAIN versionRangeWarnings : ~WarningAbout(versionRangeWarnings[k], t)
  /\ versionRangeWarningSet = { versionRangeWarnings[k] : k \in DOMAIN versionRangeWarnings }

\* Three requests have been read, the first and the third with the same broken
\* text, the second with a range, and one warning is recorded.
C11_Witness ==
  /\ Len(specs) = 3
  /\ specs[1].version = Some(<<"1", ".", "2", ".", "0", ".", "1">>)
  /\ specs[3].version = specs[1].version
  /\ specs[2].range.type = "range"
  /\ Len(versionRangeWarnings) = 1

\* ------------------------------------------------------------------------
\* C12
\* ------------------------------------------------------------------------

\* C12: two compilations of the same specifier text give the same compiled
\* specifier (type, range sets, comparators), whatever was compiled in between
\* and whatever the warning set and the cache of parsed versions held; it is the
\* one a first compilation gives.
C12_SameTextSameRange ==
  \A i \in DOMAIN specs :
    /\ \A j \in DOMAIN specs :
         specs[i].version = specs[j].version => specs[i].range = specs[j].range
    /\ specs[i].range = parseVersionRange(specs[i].version, {}, <<>>).range

\* The broken text 1.2.0.1 has been compiled twice, with another broken text
\* compiled in between and with a parsed version in the cache.
C12_Witness ==
  /\ Len(specs) = 3
  /\ specs[1].version = Some(<<"1", ".", "2", ".", "0", ".", "1">>)
  /\ specs[3].version = specs[1].version
  /\ specs[2].version = Some(<<"1", ".", "a", ".", "0">>)
  /\ specs[1].range = specs[3].range
  /\ DOMAIN parsedSemverCache # {}

\* ------------------------------------------------------------------------
\* The records the files of a run declare (used by C13 to C18)
\* ------------------------------------------------------------------------

\* The indexes of the run: the one a collector is building, the one of each
\* source, and the combined one.
Indexes == {collected, installed} \cup {sources[i].value : i \in DOMAIN sources}

\* The buckets of an index: [name, version, locations].
BucketsOf(index) ==
  UNION { { [name |-> index[i].key, version |-> index[i].value[k].key,
             locations |-> index[i].value[k].value] : k \in DOMAIN index[i].value } :
          i \in DOMAIN index }

\* The location identifier of a record d that the file f declares.
DeclaredAt(f, d) ==
  IF f.source = "node_modules" THEN d.key ELSE <<"l", "o", "c", "k", "f", "i", "l", "e", ":">> \o f.file.path \o <<"#">> \o d.key

\* The records a file of the run declares, with their locations.
DeclaredBy(f) ==
  IF ~f.file.readable THEN <<>>
  ELSE [k \in DOMAIN f.file.records |->
          [name |-> f.file.records[k].name, version |-> f.file.records[k].version,
           location |-> DeclaredAt(f, f.file.records[k]),
           integrity |-> f.file.records[k].integrity, source |-> f.source]]

\* All of them, in the order the run read them.
AllDeclared == FlatSeq([i \in DOMAIN disk |-> DeclaredBy(disk[i])])

\* A declared record is the record of a location entry of a bucket.
Declares(d, bucket, e) ==
  d.name = bucket.name /\ d.version = bucket.version /\ d.location = e.location

\* ------------------------------------------------------------------------
\* C13
\* ------------------------------------------------------------------------

\* No bucket holds a location identifier twice.
OncePerLocation(index) ==
  \A b \in BucketsOf(index) :
    \A x, y \in DOMAIN b.locations : b.locations[x].location = b.locations[y].location => x = y

\* Adding a record again at a location its bucket holds, with another
\* provenance, changes nothing; nor does merging an index into itself.
ReAddingChangesNothing(index) ==
  /\ \A b \in BucketsOf(index) :
       \A x \in DOMAIN b.locations :
         addFoundPackage(index, Some(b.name), Some(b.version),
                         Entry(b.locations[x].location, [source |-> <<"a", "g", "a", "i", "n">>])) = index
  /\ mergePackageMaps(index, index) = index

\* Every location entry carries the provenance of the first record the run
\* read for that name, version and location.
FirstProvenanceKept(index) ==
  \A b \in BucketsOf(index) :
    \A x \in DOMAIN b.locations :
      /\ \E i \in DOMAIN AllDeclared : Declares(AllDeclared[i], b, b.locations[x])
      /\ \A i \in DOMAIN AllDeclared :
           /\ Declares(AllDeclared[i], b, b.locations[x])
           /\ \A j \in 1..(i - 1) : ~Declares(AllDeclared[j], b, b.locations[x])
           => IF AllDeclared[i].source = "node_modules"
              THEN b.locations[x].metadata.source = <<"n", "o", "d", "e", "_", "m", "o", "d", "u", "l", "e", "s">>
              ELSE b.locations[x].metadata.integrity = AllDeclared[i].integrity

\* C13: after any sequence of addFoundPackage and mergePackageMaps calls every
\* (name, version) bucket of every index holds at most one entry per location
\* identifier, the entry recorded first; adding a record whose location is
\* already in its bucket leaves the index unchanged.
C13_OneEntryPerLocation ==
  \A index \in Indexes :
    OncePerLocation(index) /\ ReAddingChangesNothing(index) /\ FirstProvenanceKept(index)

\* A lockfile that declares one location twice, with two integrity values,
\* was collected and merged: the combined index holds the location once,
\* with the first value.
C13_Witness ==
  /\ pc = "report"
  /\ \E i \in DOMAIN AllDeclared, j \in DOMAIN AllDeclared :
       /\ i < j
       /\ AllDeclared[i].location = AllDeclared[j].location
       /\ AllDeclared[i].integrity # AllDeclared[j].integrity
       /\ \E b \in BucketsOf(installed) :
            \E x \in DOMAIN b.locations :
              /\ Declares(AllDeclared[i], b, b.locations[x])
              /\ b.locations[x].metadata.integrity = AllDeclared[i].integrity

\* ------------------------------------------------------------------------
\* C14
\* ------------------------------------------------------------------------

\* An installed-tree record and a lockfile record of one package at one
\* version.
SamePackage(a, b) ==
  /\ a.source = "node_modules" /\ b.source = "lockfile"
  /\ a.name = b.name /\ a.version = b.version /\ a.location # b.location

\* The version buckets of a package in an index that carry the version.
VersionBuckets(index, name, version) ==
  UNION { { <<i, k>> : k \in {x \in DOMAIN index[i].value : index[i].value[x].key = version} } :
          i \in {y \in DOMAIN index : index[y].key = name} }

\* The location identifiers of a bucket.
LocationsOf(index, name, version) ==
  { e.location : e \in UNION { {b.locations[x] : x \in DOMAIN b.locations} :
                               b \in {c \in BucketsOf(index) : c.name = name /\ c.version = version} } }

\* The members of a sequence.
Members(seq) == {seq[i] : i \in DOMAIN seq}

Reported == pc = "report"

\* The members of versions that satisfy the compiled specifier, in order.
Satisfiers(versions, range) ==
  SelectSeq(versions, LAMBDA v : satisfiesRange(parsedSemverCache, v, range).value)

\* A sequence without a member twice.
NoRepeat(seq) == \A x, y \in DOMAIN seq : seq[x] = seq[y] => x = y

\* The request was compiled from the text ^1.2.0.
IsCaret120(spec) == spec.version = Some(<<"^", "1", ".", "2", ".", "0">>)

\* C15: matchedVersions is the subsequence of installedVersions whose members
\* satisfy the compiled specifier, and the location list is the set of the
\* location identifiers stored under the matched versions, each once. The
\* request pkg@^1.2.0 matches 1.10.0 and 1.2.0 and never 1.1.9.
C15_MatchedAreTheSatisfying ==
  Reported =>
    \A r \in DOMAIN results :
      /\ results[r].matchedVersions = Satisfiers(results[r].installedVersions, specs[r].range)
      /\ NoRepeat(results[r].allLocations)
      /\ Members(results[r].allLocations)
           = UNION { LocationsOf(installed, specs[r].name, v) :
                     v \in Members(results[r].matchedVersions) }
      /\ IsCaret120(specs[r]) =>
           Members(results[r].matchedVersions)
             = Members(results[r].installedVersions) \cap {<<"1", ".", "2", ".", "0">>, <<"1", ".", "1", "0", ".", "0">>}

\* pkg@^1.2.0 was matched against an index that holds pkg at 1.1.9 and at
\* 1.10.0 and nothing else: only 1.10.0 matched.
C15_Witness ==
  /\ Reported
  /\ \E r \in DOMAIN results :
       /\ IsCaret120(specs[r])
       /\ Members(results[r].installedVersions) = {<<"1", ".", "1", ".", "9">>, <<"1", ".", "1", "0", ".", "0">>}
       /\ results[r].matchedVersions = << <<"1", ".", "1", "0", ".", "0">> >>
       /\ Len(results[r].allLocations) = 1

\* ------------------------------------------------------------------------
\* C16
\* ------------------------------------------------------------------------

\* The version string parses as a semantic version.
Parses(v) == ParseSemverMiss(v) # Null

\* The parseable members of a list are in ascending semantic order.
ParseableAscending(versions) ==
  \A x, y \in DOMAIN versions :
    x < y /\ Parses(versions[x]) /\ Parses(versions[y])
    => compareSemver(ParseSemverMiss(versions[x]), ParseSemverMiss(versions[y])) <= 0

\* No member that does not parse stands before one that does.
UnparseableLast(versions) ==
  \A x, y \in DOMAIN versions : x < y /\ Parses(versions[y]) => Parses(versions[x])

\* C16: the installedVersions of every match result has the versions that
\* parse first, in ascending semantic order, and every version that does not
\* parse after all of them.
C16_ParseableFirst ==
  Reported =>
    \A r \in DOMAIN results :
      ParseableAscending(results[r].installedVersions)
        /\ UnparseableLast(results[r].installedVersions)

\* ------------------------------------------------------------------------
\* C17
\* ------------------------------------------------------------------------

\* The versions the combined index knows for a package name.
KnownVersions(name) ==
  { b.version : b \in {c \in BucketsOf(installed) : c.name = name} }

\* No version the index knows for the request's package satisfies its
\* compiled specifier (none at all when the index does not know the name).
NothingSatisfies(spec) ==
  \A v \in KnownVersions(spec.name) : ~satisfiesRange(parsedSemverCache, v, spec.range).value

\* C17: matching gives one result per request; a request whose package name
\* is not in the index, or none of whose known versions satisfies the
\* specifier, has found = false and empty matchedVersions and locations; and
\* found is true exactly when matchedVersions is not empty.
C17_AbsentIsNotFound ==
  Reported =>
    /\ Len(results) = Len(specs)
    /\ \A r \in DOMAIN results :
         /\ results[r].name = specs[r].name
         /\ results[r].found <=> Len(results[r].matchedVersions) > 0
         /\ NothingSatisfies(specs[r]) =>
              /\ ~results[r].found
              /\ results[r].matchedVersions = <<>>
              /\ results[r].allLocations = <<>>

\* Two requests were matched: one for a package with known versions none of
\* which satisfies it, one for a package the index does not know.
C17_Witness ==
  /\ Reported
  /\ \E r \in DOMAIN results, q \in DOMAIN results :
       /\ KnownVersions(specs[r].name) # {} /\ NothingSatisfies(specs[r]) /\ ~results[r].found
       /\ KnownVersions(specs[q].name) = {} /\ ~results[q].found

\* ------------------------------------------------------------------------
\* C18
\* ------------------------------------------------------------------------

\* The files the scan met (the list file is not one of them).
Scanned == SelectSeq(disk, LAMBDA f : f.source # "list")

\* The file could not be read, or its content is structurally malformed.
Failed(f) == ~f.file.readable \/ f.file.malformed

\* The location identifier belongs to the file: the directory of a manifest,
\* or lockfile:<path># followed by a key.
LocatedIn(f, location) ==
  IF f.source = "node_modules" THEN f.file.path = location \o <<"/", "p", "a", "c", "k", "a", "g", "e", ".", "j", "s", "o", "n">>
  ELSE StartsWith(location, <<"l", "o", "c", "k", "f", "i", "l", "e", ":">> \o f.file.path \o <<"#">>)

\* The location entries of all the indexes of the run.
AllEntries ==
  UNION { UNION { { [name |-> b.name, version |-> b.version, location |-> b.locations[x].location] :
                      x \in DOMAIN b.locations } : b \in BucketsOf(index) } : index \in Indexes }

\* No index holds an entry located in the file.
GivesNothing(f) == \A e \in AllEntries : ~LocatedIn(f, e.location)

\* Every record the file declares is in an index.
GivesAll(f) ==
  \A k \in DOMAIN DeclaredBy(f) :
    [name |-> DeclaredBy(f)[k].name, version |-> DeclaredBy(f)[k].version,
     location |-> DeclaredBy(f)[k].location] \in AllEntries

\* C18: a source file that cannot be read or whose content is structurally
\* malformed contributes no record to the index, and the records of every
\* other file of the scan are added: no failure aborts the build.
C18_FailedFileGivesNothing ==
  \A i \in DOMAIN Scanned :
    IF Failed(Scanned[i]) THEN GivesNothing(Scanned[i]) ELSE GivesAll(Scanned[i])

\* ------------------------------------------------------------------------
\* C19
\* ------------------------------------------------------------------------

\* The script was invoked without the --file argument: no -f or --file with a
\* value after it.
NoFileArg(args) ==
  ~\E i \in 1..(Len(args) - 1) : args[i] \in {<<"-", "f">>, <<"-", "-", "f", "i", "l", "e">>} /\ Len(args[i + 1]) > 0

\* Help is asked for at place i.
IsHelp(args, i) == args[i] \in {<<"-", "h">>, <<"-", "-", "h", "e", "l", "p">>}

\* The argument at place i selects a source that does not exist.
IsUnknownSource(args, i) ==
  /\ i < Len(args)
  /\ args[i] \in {<<"-", "s">>, <<"-", "-", "s", "c", "a", "n">>}
  /\ <<"b", "o", "t", "h">> \notin {ToLower(Trim(p)) : p \in Members(SplitChars(args[i + 1], {","}))}
  /\ \E p \in Members(SplitChars(args[i + 1], {","})) :
       ToLower(Trim(p)) \notin {<<>>, <<"n", "o", "d", "e", "_", "m", "o", "d", "u", "l", "e", "s">>, <<"l", "o", "c", "k", "f", "i", "l", "e">>}

\* The first place where help is asked for; 0 when there is none.
FirstHelp(args) ==
  IF \E i \in DOMAIN args : IsHelp(args, i)
  THEN CHOOSE i \in DOMAIN args : IsHelp(args, i) /\ \A j \in 1..(i - 1) : ~IsHelp(args, j)
  ELSE 0

\* The first place where an unknown source is selected; 0 when there is none.
FirstUnknownSource(args) ==
  IF \E i \in DOMAIN args : IsUnknownSource(args, i)
  THEN CHOOSE i \in DOMAIN args :
         IsUnknownSource(args, i) /\ \A j \in 1..(i - 1) : ~IsUnknownSource(args, j)
  ELSE 0

\* Help is asked for, and no unknown source is selected before it.
HelpAsked(args) ==
  /\ FirstHelp(args) # 0
  /\ FirstUnknownSource(args) = 0 \/ FirstHelp(args) < FirstUnknownSource(args)

\* The command line is refused: it names no list file or an unknown source.
Refused(args) == NoFileArg(args) \/ FirstUnknownSource(args) # 0

\* The list file could not be read.
ListUnreadable == \E i \in DOMAIN disk : disk[i].source = "list" /\ ~disk[i].file.readable

\* Every requested entry was found in the combined index.
AllFound == \A r \in DOMAIN results : results[r].found

\* The process has exited.
Exited == pc = "exited"

ExactSatisfied == Checked /\ specCall.range.type = "exact" /\ satCall.value

\* The items of the first range set that are not a wildcard alone.
RefNotAny(item) == ~RefIsAny(item.token)
RefNamed(in) == SelectSeq(in.sides[1].items, RefNotAny)

\* The numbers a token names, a missing one read as 0.
RefExactNums(t) == [i \in 1..3 |-> IF i <= Len(t.nums) THEN t.nums[i] ELSE 0]

WildcardSingle(in) ==
  /\ in.kind = "spec"
  /\ Len(in.sides) = 1
  /\ ~in.sides[1].hyphen
  /\ Len(in.sides[1].items) = 1
  /\ ~TheToken(in).v /\ TheToken(in).pre = <<>> /\ TheToken(in).build = <<>>
  /\ <<Len(TheToken(in).nums), TheToken(in).wild>> \in {<<3, {3}>>, <<2, {2}>>, <<3, {2, 3}>>}

\* The range sets of the same prefix before the token with its wildcard
\* components left out.
SetsOfOmitted(in) ==
  parseVersionRange(Some(in.sides[1].items[1].op \o TokenText(Omitted(TheToken(in)))), {}, <<>>).range.sets

\* C21: under every operator prefix, a token with a wildcard minor or patch
\* component compiles to the comparators of the same token with that
\* component and every component after it omitted.
C21_WildcardLikeOmittedUnderPrefix ==
  (Compiled /\ ViaRange /\ WildcardSingle(specCall.input)) =>
    specCall.range.sets = SetsOfOmitted(specCall.input)

\* The same statement for every prefix but the tilde before a wildcard minor.
WildcardLikeOmittedButTildeMinor ==
  (/\ Compiled /\ ViaRange /\ WildcardSingle(specCall.input)
   /\ ~(specCall.input.sides[1].items[1].op = <<"~">> /\ 2 \in TheToken(specCall.input).wild)) =>
    specCall.range.sets = SetsOfOmitted(specCall.input)

\* ------------------------------------------------------------------------
\* C22
\* ------------------------------------------------------------------------

\* The specifier is one operator prefix and one full version X among Xs,
\* MAJOR.MINOR.PATCH or MAJOR.MINOR.PATCH-PRERELEASE.
OneFull(in, Xs) ==
  /\ in.kind = "spec"
  /\ Len(in.sides) = 1
  /\ ~in.sides[1].hyphen
  /\ Len(in.sides[1].items) = 1
  /\ IsVersionToken(TheToken(in))
  /\ Len(TheToken(in).nums) = 3
  /\ TheToken(in).build = <<>>
  /\ TheToken(in) \in Xs

ThePrefix(in) == in.sides[1].items[1].op

\* X itself satisfies X, =X, >=X, <=X, ^X and ~X, and no version lower than X
\* satisfies >=X, ^X or ~X, for the full versions X among Xs.
FloorOn(Xs) ==
  (Checked /\ ViaRange /\ OneFull(specCall.input, Xs)) =>
    /\ (/\ satCall.input = VersionInput(TheToken(specCall.input).nums, TheToken(specCall.input).pre, <<>>, FALSE)
        /\ ThePrefix(specCall.input) \in {<<>>, <<"=">>, <<">", "=">>, <<"<", "=">>, <<"^">>, <<"~">>})
         => satCall.value
    /\ (/\ IsVersion(satCall.input)
        /\ RefLess(RefOf(satCall.input), RefVersion(TheToken(specCall.input)))
        /\ ThePrefix(specCall.input) \in {<<">", "=">>, <<"^">>, <<"~">>})
         => ~satCall.value

\* C22: the floor of an expansion is X itself, prerelease identifiers
\* included: every full version X, with or without prerelease identifiers,
\* satisfies X, =X, >=X, <=X, ^X and ~X, and a version lower than X satisfies
\* none of >=X, ^X and ~X.
C22_FloorIsXItself == FloorOn(Tokens)

\* The same statement for the full versions without prerelease identifiers.
FloorOnReleases == FloorOn({ t \in Tokens : t.pre = <<>> })

\* ------------------------------------------------------------------------
\* C23
\* ------------------------------------------------------------------------

\* The specifier is the prefix op before a version X, and the version string
\* tried is a version that satisfies it.
Within(op) ==
  /\ Checked /\ ViaRange
  /\ Single(specCall.input, op)
  /\ IsVersionToken(TheToken(specCall.input))
  /\ IsVersion(satCall.input)
  /\ satCall.value

\* What satisfies ^X with X.major > 0 has the major number of X, and what
\* satisfies ~X with X of two or three components has the major and minor
\* numbers of X.
SameMajor ==
  (Within(<<"^">>) /\ TheToken(specCall.input).nums[1] > 0) =>
    RefOf(satCall.input).nums[1] = TheToken(specCall.input).nums[1]

SameMajorAndMinor ==
  (Within(<<"~">>) /\ Len(TheToken(specCall.input).nums) >= 2) =>
    /\ RefOf(satCall.input).nums[1] = TheToken(specCall.input).nums[1]
    /\ RefOf(satCall.input).nums[2] = TheToken(specCall.input).nums[2]

\* C23: the ceiling of a caret or tilde range excludes the next breaking
\* change: every version that satisfies ^X with X.major > 0 has the major
\* number of X, and every version that satisfies ~X with X written to at least
\* minor precision has the major and minor numbers of X.
C23_CeilingExcludesNextBreaking == SameMajor /\ SameMajorAndMinor

\* The same statement for the versions without prerelease identifiers.
CeilingExcludesNextRelease ==
  (Checked /\ IsVersion(satCall.input) /\ RefOf(satCall.input).pre = <<>>) =>
    (SameMajor /\ SameMajorAndMinor)

\* ------------------------------------------------------------------------
\* C24
\* ------------------------------------------------------------------------

\* One side of an alternation compiled as a specifier of its own, and whether
\* the version string tried satisfies it.
SideAlone(side) == parseVersionRange(Some(SideText(side)), {}, <<>>).range
SatisfiesAlone(side) == satisfiesRange(<<>>, satCall.versionString, SideAlone(side)).value

\* The specifier is A || B, and A and B each compile without an error.
Alternation ==
  /\ Checked /\ ViaRange
  /\ specCall.input.kind = "spec"
  /\ Len(specCall.input.sides) = 2
  /\ SideAlone(specCall.input.sides[1]).type # "literal"
  /\ SideAlone(specCall.input.sides[2]).type # "literal"

\* C24: a version string, parseable or not, satisfies A || B if and only if it
\* satisfies A or satisfies B, each compiled on its own.
C24_AlternationIsOr ==
  Alternation =>
    (satCall.value <=> (\/ SatisfiesAlone(specCall.input.sides[1])
                        \/ SatisfiesAlone(specCall.input.sides[2])))

\* The same statement for the version strings that parse.
AlternationIsOrOnVersions ==
  (Alternation /\ IsVersion(satCall.input)) =>
    (satCall.value <=> (\/ SatisfiesAlone(specCall.input.sides[1])
                        \/ SatisfiesAlone(specCall.input.sides[2])))

\* ------------------------------------------------------------------------
\* C25
\* ------------------------------------------------------------------------

\* The results of the run: those of the combined index and, under each of
\* them, those of every source.
MatchResults ==
  { [request |-> r, of |-> Breakdown(results[r])] : r \in DOMAIN results }
    \cup UNION { { [request |-> r, of |-> results[r].sources[k].value] :
                   k \in DOMAIN results[r].sources } : r \in DOMAIN results }

\* C25 as stated: exact is true if and only if found is true and the compiled
\* specifier of the request has type exact; a request of type any, range or
\* literal never reports exact.
C25_ExactIffFoundAndTypeExact ==
  Reported =>
    \A m \in MatchResults :
      /\ m.of.rangeInfo = specs[m.request].range
      /\ m.of.exact <=> (m.of.found /\ m.of.rangeInfo.type = "exact")

\* C25, amended: exact is true if and only if a known version satisfies the
\* request and its compiled specifier has type exact or type literal; a request
\* of type any or range never reports exact.
C25_ExactIffFoundAndOneVersion ==
  Reported =>
    \A m \in MatchResults :
      /\ m.of.rangeInfo = specs[m.request].range
      /\ m.of.exact <=> (/\ Len(m.of.matchedVersions) > 0
                         /\ m.of.rangeInfo.type \in {"exact", "literal"})

\* The request of a broken specifier text is found in one index, where it
\* reports exact, and not in another, where it does not.
C25_Witness ==
  /\ Reported
  /\ \E m \in MatchResults : m.of.rangeInfo.type = "literal" /\ m.of.found /\ m.of.exact
  /\ \E m \in MatchResults : m.of.rangeInfo.type = "literal" /\ ~m.of.found /\ ~m.of.exact

\* ------------------------------------------------------------------------
\* C26
\* ------------------------------------------------------------------------

\* C26: matching leaves the indexes as they are: the step that matches the
\* requests changes neither the combined index nor the index of any source
\* (names, versions under each name, and location entries, in their order).
C26_MatchingLeavesIndexes ==
  [][pc = "match" => (installed' = installed /\ sources' = sources)]_vars

\* The requests were matched against a combined index of two sources that
\* knows some package, and one of the requests is for a name it does not know.
C26_Witness ==
  /\ Reported
  /\ Len(sources) = 2
  /\ installed # <<>>
  /\ \E r \in DOMAIN results :
       ~MapHas(installed, results[r].name) /\ results[r].sources # <<>>

\* ------------------------------------------------------------------------
\* C27
\* ------------------------------------------------------------------------

\* The result of matching one request against one index alone.
MatchedAlone(spec, index) ==
  Breakdown(matchSpecs(<<spec>>, index, parsedSemverCache).results[1])

\* The result of request r carries one breakdown for every scanned source, in
\* the order the sources were scanned, equal to the result of matching the
\* request against the index of that source alone.
BrokenDown(r) ==
  /\ MapKeys(results[r].sources) = MapKeys(sources)
  /\ \A k \in DOMAIN sources :
       MapGet(results[r].sources, sources[k].key) = MatchedAlone(specs[r], sources[k].value)

\* C27: at the end of a run there is one match result per requested entry, in
\* request order, and each of them carries the per-source breakdown, also when
\* the same request line occurs more than once.
C27_OneResultPerRequestWithBreakdown ==
  Reported =>
    /\ Len(results) = Len(specs)
    /\ \A r \in DOMAIN results :
         /\ results[r].request = specKey(specs[r])
         /\ results[r].name = specs[r].name
         /\ BrokenDown(r)

\* The same statement for the request lists without a request twice.
BreakdownOfDistinctRequests ==
  (\A r, q \in DOMAIN specs : specKey(specs[r]) = specKey(specs[q]) => r = q) =>
     C27_OneResultPerRequestWithBreakdown

\* For a request that occurs more than once, the last of its results carries
\* the breakdown and the earlier ones carry none.
BreakdownOnLastOfRepeated ==
  Reported =>
    \A r \in DOMAIN results :
      IF \E q \in (r + 1)..Len(results) : results[q].request = results[r].request
      THEN results[r].sources = <<>>
      ELSE BrokenDown(r)

\* ------------------------------------------------------------------------
\* C28
\* ------------------------------------------------------------------------

\* The real directory d lies in the scan root or below it.
RefInside(d, root) == Len(d) >= Len(root) /\ SubSeq(d, 1, Len(root)) = root

\* The directories of the root's own entries that can be listed and that no
\* walk leaves out by name.
RefChildren(w) ==
  { d \in { Append(w.rootReal, w.fs.entries[w.rootReal][i].name) :
             i \in DOMAIN w.fs.entries[w.rootReal] } :
      /\ d \in DOMAIN w.fs.entries
      /\ d \notin w.fs.unlistable
      /\ d[Len(d)] \notin IGNORED_TOP_LEVEL }

\* No real directory was read twice, none outside the root was read, and none
\* that cannot be listed counts as read.
ExpandedOnceInside ==
  pc \in {"walking", "walked"} =>
    /\ NoRepeat(walk.expanded)
    /\ \A i \in DOMAIN walk.expanded :
         /\ RefInside(walk.expanded[i], walk.rootReal)
         /\ walk.expanded[i] \in DOMAIN walk.fs.entries
         /\ walk.expanded[i] \notin walk.fs.unlistable
    /\ \A i \in DOMAIN walk.yielded : RefInside(walk.yielded[i], walk.rootReal)

\* When the walk has ended, the directories beside one that cannot be listed
\* were read all the same.
SkippedNotStopped ==
  pc = "walked" =>
    /\ walk.stack = <<>>
    /\ \A d \in RefChildren(walk) : \E i \in DOMAIN walk.expanded : walk.expanded[i] = d

\* C28: walkDirs and walkLockfiles terminate on every tree, with links that
\* close a cycle and links that lead outside the scan root: every real
\* directory is read at most once, no directory outside the scan root is read,
\* and a directory that cannot be listed is skipped without stopping the walk.
C28_WalksTerminate ==
  /\ <>(pc = "walked")
  /\ [](ExpandedOnceInside /\ SkippedNotStopped)

\* A walk has ended on a tree in which a link leads back to the root, another
\* leads outside it, and a directory cannot be listed.
C28_Witness ==
  /\ pc = "walked"
  /\ walk.fs = Tree(Some(Root), Some(Outside), {DirB})
  /\ Len(walk.expanded) > 1
\* ------------------------------------------------------------------------
\* C29
\* ------------------------------------------------------------------------

\* What the manifests read by the lockfile collector declare: the path of the
\* manifest, the section, the package name and the specifier text as written.
ManifestDeclarations ==
  UNION { UNION { { [path |-> disk[i].file.path,
                     section |-> disk[i].file.raw.data[s].key,
                     name |-> disk[i].file.raw.data[s].value[e].key,
                     text |-> disk[i].file.raw.data[s].value[e].value] :
                    e \in DOMAIN disk[i].file.raw.data[s].value } :
                  s \in DOMAIN disk[i].file.raw.data } :
          i \in { j \in DOMAIN disk : /\ disk[j].source = "lockfile"
                                      /\ disk[j].file.base = <<"p", "a", "c", "k", "a", "g", "e", ".", "j", "s", "o", "n">>
                                      /\ disk[j].file.readable
                                      /\ disk[j].file.raw.parses } }

\* The location identifier of a declaration.
DeclarationAt(d) == <<"l", "o", "c", "k", "f", "i", "l", "e", ":">> \o d.path \o <<"#">> \o d.section \o <<"/">> \o d.name

\* The lockfile index holds the declaration under the version text.
CarriedAs(d, text) ==
  \E b \in BucketsOf(MapGetOr(sources, "lockfile", <<>>)) :
    /\ b.name = d.name
    /\ b.version = text
    /\ \E x \in DOMAIN b.locations :
         /\ b.locations[x].location = DeclarationAt(d)
         /\ b.locations[x].metadata.specifier = Some(text)

\* The version V satisfies the declared text, compiled as a specifier.
SatisfiesDeclared(V, text) ==
  satisfiesRange(parsedSemverCache, V,
                 parseVersionRange(Some(text), {}, <<>>).range).value

\* The requests for one concrete version of the package of a declaration.
ConcreteRequestsOf(d) ==
  { r \in DOMAIN results : specs[r].name = d.name /\ specs[r].range.type = "exact" }

\* C29: a manifest record carries the declared specifier text verbatim as its
\* version, and a request for a concrete version V of the package matches the
\* record whenever V satisfies the declared text compiled as a range.
C29_ManifestRangeCompiledWhenMatching ==
  Reported =>
    \A d \in ManifestDeclarations :
      /\ CarriedAs(d, d.text)
      /\ \A r \in ConcreteRequestsOf(d) :
           SatisfiesDeclared(specs[r].version[1], d.text)
             => \E x \in DOMAIN results[r].allLocations :
                  results[r].allLocations[x] = DeclarationAt(d)

\* The first half alone.
ManifestTextVerbatim ==
  Reported => \A d \in ManifestDeclarations : CarriedAs(d, d.text)

\* The second half alone.
ManifestRangeMatched ==
  Reported =>
    \A d \in ManifestDeclarations :
      \A r \in ConcreteRequestsOf(d) :
        SatisfiesDeclared(specs[r].version[1], d.text)
          => \E x \in DOMAIN results[r].allLocations :
               results[r].allLocations[x] = DeclarationAt(d)

\* What holds: the record carries the declared text without the blanks around
\* it, and a request matches the record exactly when that text, read as a
\* version string, satisfies the specifier of the request.
ManifestTextMatchedAsVersion ==
  Reported =>
    \A d \in ManifestDeclarations :
      /\ CarriedAs(d, Trim(d.text))
      /\ \A r \in DOMAIN results :
           specs[r].name = d.name =>
             ((\E x \in DOMAIN results[r].allLocations :
                 results[r].allLocations[x] = DeclarationAt(d))
              <=> satisfiesRange(parsedSemverCache, Trim(d.text), specs[r].range).value)

\* A manifest that declares a range was read and a concrete version inside
\* the range was requested.
ManifestRangeRequested ==
  /\ Reported
  /\ \E d \in ManifestDeclarations :
       /\ parseVersionRange(Some(d.text), {}, <<>>).range.type = "range"
       /\ \E r \in ConcreteRequestsOf(d) : SatisfiesDeclared(specs[r].version[1], d.text)

====
